---- MODULE Spec2Model ----
(***************************************************************************)
(* A model of the credit-risk engine of capital_flow_risk:                 *)
(*   src/src/modeling/portfolio.py   Portfolio (segments, ECL, RWA,        *)
(*                                   capital, stress_portfolio)            *)
(*   src/src/modeling/core.py        calculate_rwa_simple, EADModel,       *)
(*                                   ECLCalculator, LGDModel,              *)
(*                                   CreditAvailabilityIndex,              *)
(*                                   calculate_capital_requirement         *)
(*   src/src/stress/scenarios.py     the stress scenarios and              *)
(*                                   apply_scenario_to_portfolio           *)
(*                                                                         *)
(* Numbers.  A Python float is modelled as an exact rational               *)
(* [n |-> numerator, d |-> denominator] in lowest terms with d > 0, the    *)
(* float NaN as [n |-> 0, d |-> 0] and the infinities as [n |-> 1 or -1,   *)
(* d |-> 0].  Arithmetic is exact; NaN propagates as in IEEE-754;          *)
(* comparisons with NaN are false.                                         *)
(* Currency amounts are in millions.                                       *)
(*                                                                         *)
(* Tables.  A pandas DataFrame is modelled column-major as                 *)
(* [columns |-> sequence of column names, n |-> number of rows,            *)
(*  data |-> [column name |-> sequence of n cells]].  A cell is a float    *)
(* or a string [s |-> "..."].                                              *)
(*                                                                         *)
(* Objects.  A method that works on `x.copy()` is modelled over a small    *)
(* heap (a record of named tables): DataFrameCopy names the object the     *)
(* local variable is bound to, and every column assignment is a write to   *)
(* that object, so that "the original is not mutated" is a fact about the  *)
(* writes and not an assumption.                                           *)
(***************************************************************************)
EXTENDS Integers, Sequences, FiniteSets, TLC

VARIABLES exposures, df_macro, ead_model, ret

vars == <<exposures, df_macro, ead_model, ret>>

(***************************************************************************)
(* Floats as exact rationals.                                              *)
(***************************************************************************)
RECURSIVE GCD(_, _)
GCD(a, b) == IF b = 0 THEN a ELSE GCD(b, a % b)

Abs(x) == IF x < 0 THEN -x ELSE x

\* the float n/d, d > 0, in lowest terms
Q(n, d) == LET g == GCD(Abs(n), d) IN [n |-> n \div g, d |-> d \div g]

NaN == [n |-> 0, d |-> 0]

IsNaN(x) == x.d = 0 /\ x.n = 0

Inf(sign) == [n |-> sign, d |-> 0]

IsInf(x) == x.d = 0 /\ x.n # 0

Sign(k) == IF k < 0 THEN -1 ELSE IF k > 0 THEN 1 ELSE 0

Zero == Q(0, 1)
One == Q(1, 1)

FMul(a, b) ==
    IF IsNaN(a) \/ IsNaN(b) THEN NaN
    ELSE IF IsInf(a) \/ IsInf(b)
    THEN (IF a.n = 0 \/ b.n = 0 THEN NaN ELSE Inf(Sign(a.n) * Sign(b.n)))
    ELSE LET g1 == GCD(Abs(a.n), b.d)
             g2 == GCD(Abs(b.n), a.d)
         IN  [n |-> (a.n \div g1) * (b.n \div g2), d |-> (a.d \div g2) * (b.d \div g1)]

FAdd(a, b) ==
    IF IsNaN(a) \/ IsNaN(b) THEN NaN
    ELSE IF IsInf(a) THEN (IF IsInf(b) /\ a.n # b.n THEN NaN ELSE a)
    ELSE IF IsInf(b) THEN b
    ELSE LET g == GCD(a.d, b.d)
         IN  Q(a.n * (b.d \div g) + b.n * (a.d \div g), (a.d \div g) * b.d)

\* a / b on numpy floats: x / 0 is an infinity, 0 / 0 and inf / inf are NaN
FDiv(a, b) ==
    IF IsNaN(a) \/ IsNaN(b) THEN NaN
    ELSE IF b.n = 0 THEN (IF a.n = 0 THEN NaN ELSE Inf(Sign(a.n)))
    ELSE IF IsInf(b) THEN (IF IsInf(a) THEN NaN ELSE Zero)
    ELSE IF IsInf(a) THEN Inf(Sign(a.n) * Sign(b.n))
    ELSE LET g1 == GCD(Abs(a.n), Abs(b.n))
             g2 == GCD(a.d, b.d)
         IN  [n |-> Sign(b.n) * (a.n \div g1) * (b.d \div g2),
              d |-> (a.d \div g2) * (Abs(b.n) \div g1)]

FNeg(a) == IF IsNaN(a) THEN NaN ELSE [n |-> -a.n, d |-> a.d]

FSub(a, b) == FAdd(a, FNeg(b))

\* a <= b as Python evaluates it: False when either side is NaN
FLe(a, b) ==
    /\ ~IsNaN(a)
    /\ ~IsNaN(b)
    /\ LET g == GCD(a.d, b.d) IN a.n * (b.d \div g) <= b.n * (a.d \div g)

FLt(a, b) == FLe(a, b) /\ a # b

\* np.minimum / np.maximum / np.clip: NaN propagates
FMin(a, b) == IF IsNaN(a) \/ IsNaN(b) THEN NaN ELSE IF FLe(a, b) THEN a ELSE b

FMax(a, b) == IF IsNaN(a) \/ IsNaN(b) THEN NaN ELSE IF FLe(a, b) THEN b ELSE a

FClip(x, lo, hi) == FMin(FMax(x, lo), hi)

\* np.sqrt of the correlations the model draws: NaN below zero, exact at 0 and 1
\* (the value between is only used through the tabulated capital factor)
SqrtDefined(x) == ~IsNaN(x) /\ FLe(Zero, x)

(***************************************************************************)
(* DataFrames.                                                             *)
(***************************************************************************)
Range(s) == {s[i] : i \in DOMAIN s}

Str(name) == [s |-> name]

EmptyFrame == [columns |-> <<>>, n |-> 0, data |-> <<>>]

HasCol(df, c) == c \in Range(df.columns)

\* df[c]
Col(df, c) == df.data[c]

\* df[c] = vals
SetCol(df, c, vals) ==
    [columns |-> IF HasCol(df, c) THEN df.columns ELSE Append(df.columns, c),
     n |-> df.n,
     data |-> [k \in Range(df.columns) \cup {c} |-> IF k = c THEN vals ELSE df.data[k]]]

\* df[[c1, c2, ...]]: a new table with the listed columns
Project(df, cs) ==
    [columns |-> cs, n |-> df.n, data |-> [k \in Range(cs) |-> df.data[k]]]

NaNs(k) == [i \in 1..k |-> NaN]

\* the columns of b that a does not have, in b's order
RECURSIVE NewCols(_, _)
NewCols(a, bcols) ==
    IF bcols = <<>> THEN <<>>
    ELSE IF HasCol(a, Head(bcols)) THEN NewCols(a, Tail(bcols))
         ELSE <<Head(bcols)>> \o NewCols(a, Tail(bcols))

\* a concatenation that puts the rows of b first
ConcatPrepend(a, b) ==
    LET cols == a.columns \o NewCols(a, b.columns)
    IN  [columns |-> cols,
         n |-> a.n + b.n,
         data |-> [k \in Range(cols) |->
                     (IF HasCol(b, k) THEN b.data[k] ELSE NaNs(b.n))
                     \o (IF HasCol(a, k) THEN a.data[k] ELSE NaNs(a.n))]]

\* pd.concat([a, b], ignore_index=True): rows of a then rows of b, the union of
\* the columns, NaN where a table lacks a column
Concat(a, b) ==
    LET cols == a.columns \o NewCols(a, b.columns)
    IN  [columns |-> cols,
         n |-> a.n + b.n,
         data |-> [k \in Range(cols) |->
                     (IF HasCol(a, k) THEN a.data[k] ELSE NaNs(a.n))
                     \o (IF HasCol(b, k) THEN b.data[k] ELSE NaNs(b.n))]]

\* Series.sum(): NaN cells are skipped (skipna=True)
RECURSIVE SumSkipNa(_)
SumSkipNa(s) ==
    IF s = <<>> THEN Zero
    ELSE IF IsNaN(Head(s)) THEN SumSkipNa(Tail(s))
         ELSE FAdd(Head(s), SumSkipNa(Tail(s)))

\* DataFrame.copy(): the object a variable bound to `src.copy()` names
DataFrameCopyAlias(src, fresh) == src

DataFrameCopy(src, fresh) == fresh

\* the heap after `fresh = src.copy()`: the copy holds the contents of src
AfterCopy(h, src, fresh) == [h EXCEPT ![DataFrameCopy(src, fresh)] = h[src]]

None == [s |-> "None"]

\* the element of a one-element set; The({e(x) : x \in {v}}) is e with the local
\* variable x assigned v once
The(S) == CHOOSE x \in S : TRUE


(***************************************************************************)
(* core.py: calculate_rwa_simple.                                          *)
(***************************************************************************)
\* the denominator of the PD keys of CapitalFactorTable
PdKeyDen == 100000

\* correlation (numerator, denominator) -> clipped PD in units of 1e-5 -> capital
\* factor in units of 1e-4
CapitalFactorTable ==
    <<3, 20>> :> (
       10 :> 304 @@ 250 :> 1136 @@ 400 :> 1389 @@ 500 :> 1527 @@ 550 :> 1589 @@
       700 :> 1758 @@ 800 :> 1858 @@ 850 :> 1905 @@ 925 :> 1972 @@ 1000 :> 2036 @@
       1075 :> 2096 @@ 1100 :> 2116 @@ 1150 :> 2154 @@ 1250 :> 2227 @@ 1300 :> 2262 @@
       1400 :> 2329 @@ 1450 :> 2362 @@ 1500 :> 2394 @@ 1600 :> 2455 @@ 1700 :> 2513 @@
       1750 :> 2541 @@ 1850 :> 2596 @@ 2000 :> 2675 @@ 2150 :> 2749 @@ 2200 :> 2772 @@
       2300 :> 2819 @@ 2500 :> 2907 @@ 2600 :> 2949 @@ 2750 :> 3010 @@ 2900 :> 3068 @@
       3000 :> 3105 @@ 3200 :> 3177 @@ 3500 :> 3278 @@ 4250 :> 3500 @@ 4400 :> 3540 @@
       4625 :> 3598 @@ 5000 :> 3688 @@ 5375 :> 3772 @@ 5750 :> 3850 @@ 6500 :> 3992 @@
       7250 :> 4116 @@ 7500 :> 4154 @@ 8000 :> 4226 @@ 8750 :> 4323 @@ 11000 :> 4555 @@
       25000 :> 4955 @@ 30000 :> 4871 @@ 40000 :> 4516 @@ 48000 :> 4106 @@
       50000 :> 3990 @@ 55000 :> 3680 @@ 60000 :> 3345 @@ 66000 :> 2913 @@
       70000 :> 2610 @@ 84000 :> 1463 @@ 85000 :> 1377 @@ 92500 :> 708 @@ 99990 :> 1)
    @@
    <<6, 25>> :> (
       10 :> 1002 @@ 250 :> 2467 @@ 400 :> 2839 @@ 500 :> 3032 @@ 550 :> 3117 @@
       700 :> 3343 @@ 800 :> 3473 @@ 850 :> 3533 @@ 925 :> 3619 @@ 1000 :> 3698 @@
       1075 :> 3773 @@ 1100 :> 3797 @@ 1150 :> 3844 @@ 1250 :> 3933 @@ 1300 :> 3975 @@
       1400 :> 4055 @@ 1450 :> 4093 @@ 1500 :> 4130 @@ 1600 :> 4201 @@ 1700 :> 4268 @@
       1750 :> 4301 @@ 1850 :> 4363 @@ 2000 :> 4450 @@ 2150 :> 4532 @@ 2200 :> 4558 @@
       2300 :> 4608 @@ 2500 :> 4703 @@ 2600 :> 4748 @@ 2750 :> 4811 @@ 2900 :> 4872 @@
       3000 :> 4910 @@ 3200 :> 4983 @@ 3500 :> 5084 @@ 4250 :> 5300 @@ 4400 :> 5338 @@
       4625 :> 5392 @@ 5000 :> 5475 @@ 5375 :> 5550 @@ 5750 :> 5618 @@ 6500 :> 5738 @@
       7250 :> 5839 @@ 7500 :> 5869 @@ 8000 :> 5923 @@ 8750 :> 5995 @@ 11000 :> 6146 @@
       25000 :> 6072 @@ 30000 :> 5845 @@ 40000 :> 5244 @@ 48000 :> 4669 @@
       50000 :> 4516 @@ 55000 :> 4119 @@ 60000 :> 3705 @@ 66000 :> 3191 @@
       70000 :> 2838 @@ 84000 :> 1552 @@ 85000 :> 1457 @@ 92500 :> 739 @@ 99990 :> 1)

\* np.clip(pd, 0.0001, 0.9999)
ClipPd(pd) == FClip(pd, Q(1, 10000), Q(9999, 10000))

\* the key of a clipped PD in the capital-factor table: the PD in units of 1e-5
PdKey(pd) == pd.n * (PdKeyDen \div pd.d)

\* k * maturity_adj per unit of LGD, for a clipped pd and a correlation in [0,1]:
\*   (norm.cdf(sqrt(1-R)*norm.ppf(pd) + sqrt(R)*norm.ppf(0.999)) - pd) / (1 - 1.5*b),
\*   b = (0.11852 - 0.05478*ln(pd))**2,
\* evaluated in double precision and rounded to 1e-4
CapitalFactor(pd, correlation) ==
    Q(CapitalFactorTable[<<correlation.n, correlation.d>>][PdKey(pd)], 10000)

calculate_rwa_simple(ead, pd, lgd, correlation) ==
    LET pdc == ClipPd(pd)
        \* np.sqrt(correlation), np.sqrt(1 - correlation): NaN for a negative argument
        roots_ok == SqrtDefined(correlation) /\ SqrtDefined(FSub(One, correlation))
    IN  IF IsNaN(ead) \/ IsNaN(pdc) \/ IsNaN(lgd) \/ ~roots_ok THEN NaN
        ELSE LET k_adj == FMul(lgd, CapitalFactor(pdc, correlation))
             IN  FMul(FMul(ead, k_adj), Q(25, 2))

\* calculate_capital_requirement(rwa, cet1_ratio)
calculate_capital_requirement(rwa, cet1_ratio) == FMul(rwa, cet1_ratio)

(***************************************************************************)
(* portfolio.py: Portfolio.                                                *)
(***************************************************************************)
\* Portfolio.add_segment: the new value of self.exposures
add_segment(exp, segment_name, n_loans, avg_exposure, avg_pd, avg_lgd, correlation, segment_type) ==
    LET total_ead == FMul(Q(n_loans, 1), avg_exposure)
        cols == <<"segment", "type", "n_loans", "avg_exposure", "total_ead",
                  "avg_pd", "avg_lgd", "correlation">>
        segment == [columns |-> cols,
                    n |-> 1,
                    data |-> [k \in Range(cols) |->
                        CASE k = "segment" -> <<Str(segment_name)>>
                          [] k = "type" -> <<Str(segment_type)>>
                          [] k = "n_loans" -> <<Q(n_loans, 1)>>
                          [] k = "avg_exposure" -> <<avg_exposure>>
                          [] k = "total_ead" -> <<total_ead>>
                          [] k = "avg_pd" -> <<avg_pd>>
                          [] k = "avg_lgd" -> <<avg_lgd>>
                          [] k = "correlation" -> <<correlation>>]]
    IN  Concat(exp, segment)

\* the outcome of a method: self.exposures afterwards, the exception raised (or
\* None) and the value returned
Outcome(exp, raised, value) == [exposures |-> exp, raised |-> raised, value |-> value]

KeyError == [s |-> "KeyError"]

\* ecl_12m of a row, as calculate_ecl writes it (portfolio.py 54-58)
Ecl12mAccumulate(exp, i) ==
    LET now == FMul(FMul(Col(exp, "avg_pd")[i], Col(exp, "avg_lgd")[i]), Col(exp, "total_ead")[i])
    IN  IF HasCol(exp, "ecl_12m") /\ ~IsNaN(Col(exp, "ecl_12m")[i])
        THEN FAdd(Col(exp, "ecl_12m")[i], now) ELSE now

Ecl12m(exp, i) ==
    FMul(FMul(Col(exp, "avg_pd")[i], Col(exp, "avg_lgd")[i]), Col(exp, "total_ead")[i])

\* calculate_ecl with the per-loan exposure in place of total_ead
calculate_eclPerLoan(exp) ==
    IF ~HasCol(exp, "avg_pd") THEN Outcome(exp, KeyError, None)
    ELSE LET e1 == SetCol(exp, "ecl_12m",
                          [i \in 1..exp.n |-> FMul(FMul(Col(exp, "avg_pd")[i], Col(exp, "avg_lgd")[i]),
                                                   Col(exp, "avg_exposure")[i])])
             e2 == SetCol(e1, "ecl_lifetime",
                          [i \in 1..exp.n |-> FMul(Col(e1, "ecl_12m")[i], Q(5, 1))])
         IN  Outcome(e2, None, Project(e2, <<"segment", "ecl_12m", "ecl_lifetime">>))

calculate_ecl(exp) ==
    IF ~HasCol(exp, "avg_pd") THEN Outcome(exp, KeyError, None)
    ELSE LET e1 == SetCol(exp, "ecl_12m", [i \in 1..exp.n |-> Ecl12m(exp, i)])
             e2 == SetCol(e1, "ecl_lifetime",
                          [i \in 1..exp.n |-> FMul(Col(e1, "ecl_12m")[i], Q(5, 1))])
         IN  Outcome(e2, None, Project(e2, <<"segment", "ecl_12m", "ecl_lifetime">>))

\* the list calculate_rwa builds over iterrows() (portfolio.py 69-78)
RwaList(exp) ==
    [i \in 1..exp.n |->
        calculate_rwa_simple(Col(exp, "total_ead")[i], Col(exp, "avg_pd")[i],
                             Col(exp, "avg_lgd")[i], Col(exp, "correlation")[i])]

calculate_rwa(exp) ==
    LET e1 == SetCol(exp, "rwa", RwaList(exp))
    IN  \* the column is stored before the returned selection is evaluated
        IF ~HasCol(e1, "segment") THEN Outcome(e1, KeyError, None)
        ELSE Outcome(e1, None, Project(e1, <<"segment", "total_ead", "rwa">>))

\* calculate_capital with the two ratios taken in the other order
calculate_capitalSwapped(exp, cet1_ratio, tier1_ratio) ==
    LET r == IF ~HasCol(exp, "rwa") THEN calculate_rwa(exp) ELSE Outcome(exp, None, None)
    IN  IF r.raised # None THEN Outcome(r.exposures, r.raised, None)
        ELSE LET total_rwa == SumSkipNa(Col(r.exposures, "rwa"))
             IN  Outcome(r.exposures, None,
                         [total_rwa |-> total_rwa,
                          cet1_required |-> FMul(total_rwa, tier1_ratio),
                          tier1_required |-> FMul(total_rwa, cet1_ratio),
                          total_capital_required |-> FMul(total_rwa, Q(125, 1000))])

calculate_capital(exp, cet1_ratio, tier1_ratio) ==
    LET r == IF ~HasCol(exp, "rwa") THEN calculate_rwa(exp) ELSE Outcome(exp, None, None)
    IN  IF r.raised # None THEN Outcome(r.exposures, r.raised, None)
        ELSE LET total_rwa == SumSkipNa(Col(r.exposures, "rwa"))
             IN  Outcome(r.exposures, None,
                         [total_rwa |-> total_rwa,
                          cet1_required |-> FMul(total_rwa, cet1_ratio),
                          tier1_required |-> FMul(total_rwa, tier1_ratio),
                          total_capital_required |-> FMul(total_rwa, Q(125, 1000))])

\* avg_lgd_stressed of a row (portfolio.py 116)
\* a stressed LGD without the cap at 1
LgdStressedUncapped(lgd, lgd_shock) == FMul(lgd, lgd_shock)

\* np.minimum(stressed['avg_lgd'] * lgd_shock, 1.0)
LgdStressed(lgd, lgd_shock) == FMin(FMul(lgd, lgd_shock), One)

stress_portfolio(exp, pd_shock, lgd_shock, ead_shock) ==
    LET h0 == AfterCopy([exposures |-> exp, stressed |-> EmptyFrame], "exposures", "stressed")
        stressed == DataFrameCopy("exposures", "stressed")
        h1 == [h0 EXCEPT ![stressed] =
                 SetCol(@, "avg_pd_stressed",
                        [i \in 1..@.n |-> FMul(Col(@, "avg_pd")[i], pd_shock)])]
        h2 == [h1 EXCEPT ![stressed] =
                 SetCol(@, "avg_lgd_stressed",
                        [i \in 1..@.n |-> LgdStressed(Col(@, "avg_lgd")[i], lgd_shock)])]
        h3 == [h2 EXCEPT ![stressed] =
                 SetCol(@, "total_ead_stressed",
                        [i \in 1..@.n |-> FMul(Col(@, "total_ead")[i], ead_shock)])]
        h4 == [h3 EXCEPT ![stressed] =
                 SetCol(@, "ecl_stressed",
                        [i \in 1..@.n |-> FMul(FMul(Col(@, "avg_pd_stressed")[i],
                                                    Col(@, "avg_lgd_stressed")[i]),
                                               Col(@, "total_ead_stressed")[i])])]
        h5 == [h4 EXCEPT ![stressed] =
                 SetCol(@, "rwa_stressed",
                        [i \in 1..@.n |->
                            calculate_rwa_simple(Col(@, "total_ead_stressed")[i],
                                                 Col(@, "avg_pd_stressed")[i],
                                                 Col(@, "avg_lgd_stressed")[i],
                                                 Col(@, "correlation")[i])])]
    IN  IF ~HasCol(exp, "avg_pd") THEN Outcome(h0.exposures, KeyError, None)
        ELSE Outcome(h5.exposures, None, h5[stressed])

(***************************************************************************)
(* scenarios.py: the stress scenarios.  Each apply works on the heap       *)
(* [df_base, df_stressed]; its outcome is df_base afterwards, the          *)
(* exception raised (or None) and the table returned.                      *)
(***************************************************************************)
MacroOutcome(h, raised, value) == [df_base |-> h.df_base, raised |-> raised, value |-> value]

MacroHeapReversed(df_base) ==
    [df_base |-> df_base,
     df_stressed |-> [columns |-> df_base.columns, n |-> df_base.n,
                      data |-> [c \in DOMAIN df_base.data |->
                                  [i \in 1..df_base.n |-> df_base.data[c][df_base.n + 1 - i]]]]]

\* the heap after `df_stressed = df_base.copy()`
MacroHeap(df_base) ==
    AfterCopy([df_base |-> df_base, df_stressed |-> EmptyFrame], "df_base", "df_stressed")

StressedObjAlias == "df_base"

\* the object the local variable df_stressed names
StressedObj == DataFrameCopy("df_base", "df_stressed")

\* AddConst reaching the last row only
AddConstLastOnly(h, obj, var, shock) ==
    [h EXCEPT ![obj] =
        IF HasCol(@, var)
        THEN SetCol(@, var, [i \in 1..@.n |-> IF i = @.n THEN FAdd(Col(@, var)[i], shock)
                                               ELSE Col(@, var)[i]])
        ELSE @]

\* if var in df.columns: df[var] = df[var] + shock     (df the table named obj)
AddConst(h, obj, var, shock) ==
    [h EXCEPT ![obj] =
        IF HasCol(@, var)
        THEN SetCol(@, var, [i \in 1..@.n |-> FAdd(Col(@, var)[i], shock)])
        ELSE @]

\* if var in df.columns: df[var] = df[var] * factor
Scale(h, obj, var, factor) ==
    [h EXCEPT ![obj] =
        IF HasCol(@, var)
        THEN SetCol(@, var, [i \in 1..@.n |-> FMul(Col(@, var)[i], factor)])
        ELSE @]

Min(a, b) == IF a <= b THEN a ELSE b

\* np.linspace(0, stop, m): m points from 0 to stop, the single point 0 when m = 1
Linspace(stop, m) ==
    [i \in 1..m |-> IF m = 1 THEN Zero ELSE FMul(stop, Q(i - 1, m - 1))]

\* np.concatenate([np.linspace(0, stop, min(ramp, n)), np.full(n - min(ramp, n), stop)])
RampPath(stop, ramp, n) ==
    LET m == Min(ramp, n)
    IN  Linspace(stop, m) \o [i \in 1..(n - m) |-> stop]

\* if var in df.columns: df[var] = df[var] + <the ramp to stop over len(df) rows>
AddRamp(h, obj, var, stop, ramp) ==
    [h EXCEPT ![obj] =
        IF HasCol(@, var)
        THEN SetCol(@, var, [i \in 1..@.n |-> FAdd(Col(@, var)[i], RampPath(stop, ramp, @.n)[i])])
        ELSE @]

\* if var in df.columns: df[var] = <the ramp to stop over len(df) rows>
SetRamp(h, obj, var, stop, ramp) ==
    [h EXCEPT ![obj] =
        IF HasCol(@, var)
        THEN SetCol(@, var, [i \in 1..@.n |-> RampPath(stop, ramp, @.n)[i]])
        ELSE @]

\* if var in df.columns: df[var] = np.minimum(df[var], cap)
CapAt(h, obj, var, cap) ==
    [h EXCEPT ![obj] =
        IF HasCol(@, var)
        THEN SetCol(@, var, [i \in 1..@.n |-> FMin(Col(@, var)[i], cap)])
        ELSE @]

\* CutTo without the floor
CutOnly(h, obj, var, cut, floor) ==
    [h EXCEPT ![obj] =
        IF HasCol(@, var)
        THEN SetCol(@, var, [i \in 1..@.n |-> FSub(Col(@, var)[i], cut)])
        ELSE @]

\* if var in df.columns: df[var] = np.maximum(df[var] - cut, floor)
CutTo(h, obj, var, cut, floor) ==
    [h EXCEPT ![obj] =
        IF HasCol(@, var)
        THEN SetCol(@, var, [i \in 1..@.n |-> FMax(FSub(Col(@, var)[i], cut), floor)])
        ELSE @]

\* one item of StressScenario.shocks applied to a table that has the column; a
\* shock is a number [kind |-> "number"], a dict with 'instant', a dict with
\* 'growth', or a dict with neither [kind |-> "other"]
ShockedCell(x, shock) ==
    CASE shock.kind = "instant" -> FAdd(x, shock.v)
      [] shock.kind = "growth" -> FMul(x, FAdd(One, shock.v))
      [] shock.kind = "other" -> x
      [] shock.kind = "number" -> FAdd(x, shock.v)

\* StressScenario.apply over the items of self.shocks, in order
RECURSIVE BaseShocks(_, _, _)
BaseShocks(h, obj, shocks) ==
    IF shocks = <<>> THEN h
    ELSE BaseShocks([h EXCEPT ![obj] =
                        IF HasCol(@, Head(shocks)[1])
                        THEN SetCol(@, Head(shocks)[1],
                                    [i \in 1..@.n |->
                                        ShockedCell(Col(@, Head(shocks)[1])[i], Head(shocks)[2])])
                        ELSE @],
                    obj, Tail(shocks))

StressScenario_apply(sc, df_base) ==
    LET h == BaseShocks(MacroHeap(df_base), StressedObj, sc.shocks)
    IN  MacroOutcome(h, None, h[StressedObj])

TighteningScenario_apply(sc, df_base) ==
    LET o == StressedObj
        h0 == MacroHeap(df_base)
        h1 == AddConst(h0, o, "cash_rate", sc.rate_shock)
        h2 == AddConst(h1, o, "fed_funds_rate", sc.rate_shock)
        h3 == AddRamp(h2, o, "unemployment_rate", sc.unemployment_shock, 12)
        h4 == IF HasCol(h3[o], "housing_price_index") \/ HasCol(h3[o], "housing_price_growth")
              THEN AddRamp(h3, o, "housing_price_growth", sc.housing_shock, 24)
              ELSE h3
        h5 == Scale(h4, o, "credit_growth_housing", Q(1, 2))
        h6 == Scale(h5, o, "credit_growth", Q(1, 2))
        h7 == AddConst(h6, o, "bbsw_spread", Q(1, 2))
        h8 == AddConst(h7, o, "baa_spread", Q(1, 2))
    IN  MacroOutcome(h8, None, h8[o])

SoftLandingScenario_apply(sc, df_base) ==
    LET o == StressedObj
        h0 == MacroHeap(df_base)
        h1 == AddConst(h0, o, "cash_rate", sc.rate_shock)
        h2 == AddConst(h1, o, "fed_funds_rate", sc.rate_shock)
        h3 == AddConst(h2, o, "unemployment_rate", sc.unemployment_shock)
        h4 == AddConst(h3, o, "housing_price_growth", sc.housing_shock)
        h5 == Scale(h4, o, "credit_growth_housing", Q(85, 100))
        h6 == Scale(h5, o, "credit_growth", Q(85, 100))
    IN  MacroOutcome(h6, None, h6[o])

FundingShockScenario_apply(sc, df_base) ==
    LET o == StressedObj
        h0 == MacroHeap(df_base)
        h1 == AddConst(h0, o, "bbsw_spread", sc.spread_shock)
    IN  IF HasCol(h1[o], "bbsw_spread") /\ ~HasCol(h1[o], "cash_rate")
        THEN \* df_stressed['cash_rate'] on line 184
             MacroOutcome(h1, KeyError, None)
        ELSE LET h2 == [h1 EXCEPT ![o] =
                          IF HasCol(@, "bbsw_spread")
                          THEN SetCol(@, "bbsw_rate",
                                      [i \in 1..@.n |-> FAdd(Col(@, "cash_rate")[i],
                                                             Col(@, "bbsw_spread")[i])])
                          ELSE @]
                 h3 == AddConst(h2, o, "baa_spread", sc.spread_shock)
                 h4 == AddConst(h3, o, "funding_cost", sc.spread_shock)
                 h5 == AddConst(h4, o, "credit_growth_housing", sc.credit_shock)
                 h6 == AddConst(h5, o, "credit_growth_business", FMul(sc.credit_shock, Q(3, 2)))
                 h7 == AddConst(h6, o, "credit_growth", sc.credit_shock)
                 h8 == Scale(h7, o, "liquidity_ratio", Q(9, 10))
             IN  MacroOutcome(h8, None, h8[o])

SevereRecessionScenario_apply(sc, df_base) ==
    LET o == StressedObj
        h0 == MacroHeap(df_base)
        h1 == AddRamp(h0, o, "unemployment_rate", Q(5, 1), 12)
        h2 == CapAt(h1, o, "unemployment_rate", Q(12, 1))
        h3 == SetRamp(h2, o, "housing_price_growth", Q(-25, 1), 18)
        h4 == CutTo(h3, o, "cash_rate", Q(3, 1), Q(1, 10))
        h5 == CutTo(h4, o, "fed_funds_rate", Q(4, 1), Q(1, 10))
        h6 == AddConst(h5, o, "credit_growth_housing", Q(-20, 1))
        h7 == AddConst(h6, o, "credit_growth", Q(-20, 1))
        h8 == AddConst(h7, o, "bbsw_spread", Q(2, 1))
        h9 == AddConst(h8, o, "baa_spread", Q(3, 1))
    IN  MacroOutcome(h9, None, h9[o])

\* custom shocks that multiply the field by the shock
RECURSIVE CustomShocksScaled(_, _, _)
CustomShocksScaled(h, obj, shocks) ==
    IF shocks = <<>> THEN h
    ELSE CustomShocksScaled(Scale(h, obj, Head(shocks)[1], Head(shocks)[2]), obj, Tail(shocks))

\* CustomScenario.apply over the items of self.custom_shocks, in order
RECURSIVE CustomShocks(_, _, _)
CustomShocks(h, obj, shocks) ==
    IF shocks = <<>> THEN h
    ELSE CustomShocks(AddConst(h, obj, Head(shocks)[1], Head(shocks)[2]), obj, Tail(shocks))

CustomScenario_apply(sc, df_base) ==
    LET h == CustomShocks(MacroHeap(df_base), StressedObj, sc.custom_shocks)
    IN  MacroOutcome(h, None, h[StressedObj])

\* scenario.apply(df): dispatch on the scenario's class
Apply(sc, df_base) ==
    CASE sc.class = "StressScenario" -> StressScenario_apply(sc, df_base)
      [] sc.class = "TighteningScenario" -> TighteningScenario_apply(sc, df_base)
      [] sc.class = "SoftLandingScenario" -> SoftLandingScenario_apply(sc, df_base)
      [] sc.class = "FundingShockScenario" -> FundingShockScenario_apply(sc, df_base)
      [] sc.class = "SevereRecessionScenario" -> SevereRecessionScenario_apply(sc, df_base)
      [] sc.class = "CustomScenario" -> CustomScenario_apply(sc, df_base)

\* the first row in place of the last
FirstPeriod(df, c) == Col(df, c)[1]

\* df.iloc[-1][c]
Latest(df, c) == Col(df, c)[df.n]

PdMultiplierSignSlip(df_stressed, macro) ==
    IF HasCol(df_stressed, "unemployment_rate")
    THEN LET unemployment_impact ==
                 FMul(FSub(Latest(df_stressed, "unemployment_rate"),
                           Latest(macro, "unemployment_rate")), Q(1, 2))
         IN  FSub(One, FMul(unemployment_impact, Q(3, 10)))
    ELSE One

\* pd_multiplier (scenarios.py 318-322)
PdMultiplier(df_stressed, macro) ==
    IF HasCol(df_stressed, "unemployment_rate")
    THEN LET unemployment_impact ==
                 FMul(FSub(Latest(df_stressed, "unemployment_rate"),
                           Latest(macro, "unemployment_rate")), Q(1, 2))
         IN  FAdd(One, FMul(unemployment_impact, Q(3, 10)))
    ELSE One

\* housing_impact (scenarios.py 326)
HousingImpact(df_stressed, macro) ==
    FMul(FSub(Latest(df_stressed, "housing_price_growth"),
              IF HasCol(macro, "housing_price_growth")
              THEN Latest(macro, "housing_price_growth") ELSE Zero),
         Q(1, 10))

\* lgd_multiplier (scenarios.py 325-330)
LgdMultiplier(df_stressed, macro) ==
    IF HasCol(df_stressed, "housing_price_growth")
    THEN The({ The({ FClip(lgd_multiplier, Q(8, 10), Q(15, 10)) :
                       lgd_multiplier \in {FSub(One, FMul(housing_impact, Q(1, 10)))} }) :
                 housing_impact \in {HousingImpact(df_stressed, macro)} })
    ELSE One

\* ead_multiplier (scenarios.py 333)
EadMultiplier == Q(105, 100)

\* the three multipliers (scenarios.py 317-333); df_macro is read again after
\* scenario.apply returned
Multipliers(a) ==
    [pd_shock |-> PdMultiplier(a.value, a.df_base),
     lgd_shock |-> LgdMultiplier(a.value, a.df_base),
     ead_shock |-> EadMultiplier]

\* the outcome of apply_scenario_to_portfolio once stress_portfolio returned r
StressedOutcome(a, shocks, r) ==
    [df_base |-> a.df_base, exposures |-> r.exposures, raised |-> r.raised,
     value |-> IF r.raised # None THEN None
               ELSE [stressed_results |-> r.value, df_stressed |-> a.value],
     shocks |-> shocks]

\* scenarios.py 317-342, after df_stressed = scenario.apply(df_macro) returned a
StressWith(exp, a) ==
    The({ The({ StressedOutcome(a, shocks, r) :
                  r \in {stress_portfolio(exp, shocks.pd_shock, shocks.lgd_shock,
                                          shocks.ead_shock)} }) :
            shocks \in {Multipliers(a)} })

\* apply_scenario_to_portfolio: the outcome for the macro table and the portfolio
apply_scenario_to_portfolio(exp, sc, macro) ==
    The({ IF a.raised # None
          THEN [df_base |-> a.df_base, exposures |-> exp, raised |-> a.raised,
                value |-> None, shocks |-> None]
          ELSE StressWith(exp, a) :
            a \in {Apply(sc, macro)} })

(***************************************************************************)
(* core.py: EADModel.                                                      *)
(***************************************************************************)
\* what a method returned or raised
Returned(raised, value) == [raised |-> raised, value |-> value]

IsNone(x) == "s" \in DOMAIN x /\ x.s = "None"

\* EADModel.__init__
EADModel(ccf) == [ccf |-> ccf]

\* calculate with `if usage_rate:` for `if usage_rate is not None:`
EADModel_calculateTruthy(self, drawn_amount, commitment, usage_rate) ==
    LET undrawn == FSub(commitment, drawn_amount)
    IN  Returned(None,
                 IF ~IsNone(usage_rate) /\ usage_rate # Zero
                 THEN FAdd(drawn_amount, FMul(usage_rate, undrawn))
                 ELSE FAdd(drawn_amount, FMul(self.ccf, undrawn)))

\* EADModel.calculate
EADModel_calculate(self, drawn_amount, commitment, usage_rate) ==
    LET undrawn == FSub(commitment, drawn_amount)
    IN  Returned(None,
                 IF ~IsNone(usage_rate) THEN FAdd(drawn_amount, FMul(usage_rate, undrawn))
                 ELSE FAdd(drawn_amount, FMul(self.ccf, undrawn)))

\* EADModel.calculate_stressed
EADModel_calculate_stressed(self, drawn_amount, commitment, stress_factor) ==
    LET ccf_stressed == FMin(One, FMul(self.ccf, stress_factor))
        undrawn == FSub(commitment, drawn_amount)
    IN  Returned(None, FAdd(drawn_amount, FMul(ccf_stressed, undrawn)))

(***************************************************************************)
(* core.py: ECLCalculator.                                                 *)
(***************************************************************************)
\* stage_classification with `>=` in place of `>` in the PD test
stage_classificationAtLeast(current_pd, origination_pd, dpd) ==
    IF dpd > 90 THEN 3
    ELSE IF FLe(FMul(Q(2, 1), origination_pd), current_pd) THEN 2
    ELSE 1

\* ECLCalculator.stage_classification
stage_classification(current_pd, origination_pd, dpd) ==
    IF dpd > 90 THEN 3
    ELSE IF FLt(FMul(Q(2, 1), origination_pd), current_pd) THEN 2
    ELSE 1

\* x ** t for an integer t >= 0
RECURSIVE FPow(_, _)
FPow(x, t) == IF t = 0 THEN One ELSE FMul(x, FPow(x, t - 1))

\* the default of calculate_lifetime_ecl's maturity parameter
DefaultMaturity == 5

\* the loop of calculate_lifetime_ecl from year t on; ecl is the sum so far,
\* pd_t = pd_lifetime / maturity and df_t = 1 / (1 + 0.05) ** t
RECURSIVE LifetimeLoop(_, _, _, _, _, _)
LifetimeLoop(ecl, pd_lifetime, lgd, ead, maturity, t) ==
    IF t > maturity THEN ecl
    ELSE LifetimeLoop(FAdd(ecl, FMul(FMul(FMul(FMul(pd_lifetime, Q(1, maturity)), lgd), ead),
                                     FPow(Q(100, 105), t))),
                      pd_lifetime, lgd, ead, maturity, t + 1)

\* ECLCalculator.calculate_lifetime_ecl
calculate_lifetime_ecl(pd_lifetime, lgd, ead, maturity) ==
    LifetimeLoop(Zero, pd_lifetime, lgd, ead, maturity, 1)

\* calculate_portfolio_ecl testing `stage == 2` for the lifetime branch
calculate_portfolio_eclStage2Only(df, exposure, stage) ==
    IF ~HasCol(df, "pd") \/ ~HasCol(df, "lgd") THEN Returned(KeyError, None)
    ELSE IF stage # 2
         THEN Returned(None, [i \in 1..df.n |->
                                 FMul(FMul(Col(df, "pd")[i], Col(df, "lgd")[i]), exposure[i])])
         ELSE Returned(None, [i \in 1..df.n |->
                                 calculate_lifetime_ecl(Col(df, "pd")[i], Col(df, "lgd")[i],
                                                        exposure[i], DefaultMaturity)])

\* ECLCalculator.calculate_portfolio_ecl: df['pd'], df['lgd'] and exposure are
\* combined row by row
calculate_portfolio_ecl(df, exposure, stage) ==
    IF ~HasCol(df, "pd") \/ ~HasCol(df, "lgd") THEN Returned(KeyError, None)
    ELSE IF stage = 1
         THEN Returned(None, [i \in 1..df.n |->
                                 FMul(FMul(Col(df, "pd")[i], Col(df, "lgd")[i]), exposure[i])])
         ELSE Returned(None, [i \in 1..df.n |->
                                 calculate_lifetime_ecl(Col(df, "pd")[i], Col(df, "lgd")[i],
                                                        exposure[i], DefaultMaturity)])

(***************************************************************************)
(* The portfolio's operations as actions.  ret records the last call: its  *)
(* name, its arguments, the exception it raised (or None) and its value.   *)
(***************************************************************************)
\* the longest portfolio the model builds
MaxSegments == 2

Call(op, args, raised, value) == [op |-> op, args |-> args, raised |-> raised, value |-> value]

NoCall == Call("__init__", <<>>, None, None)

\* the segments add_segment is called with (currency amounts in millions, so
\* that sums of products stay within TLC's integers): the spec's worked example, two
\* further segments inside the documented ranges (one on the boundary PD = LGD = 1)
\* and two outside them (correlation > 1; PD > 1, LGD > 1 and a negative exposure)
Mortgages ==
    [segment_name |-> "Residential Mortgages", n_loans |-> 1000, avg_exposure |-> Q(1, 2),
     avg_pd |-> Q(1, 100), avg_lgd |-> Q(30, 100), correlation |-> Q(15, 100),
     segment_type |-> "retail"]

SmeLending ==
    [segment_name |-> "SME Lending", n_loans |-> 20, avg_exposure |-> Q(1, 1),
     avg_pd |-> Q(5, 100), avg_lgd |-> Q(45, 100), correlation |-> Q(24, 100),
     segment_type |-> "corporate"]

Defaulted ==
    [segment_name |-> "Defaulted", n_loans |-> 2, avg_exposure |-> Q(1, 10),
     avg_pd |-> Q(1, 1), avg_lgd |-> Q(1, 1), correlation |-> Q(15, 100),
     segment_type |-> "retail"]

BadCorrelation ==
    [segment_name |-> "Bad correlation", n_loans |-> 10, avg_exposure |-> Q(1, 10),
     avg_pd |-> Q(2, 100), avg_lgd |-> Q(40, 100), correlation |-> Q(3, 2),
     segment_type |-> "corporate"]

BadPdLgd ==
    [segment_name |-> "Bad PD and LGD", n_loans |-> 10, avg_exposure |-> Q(-1, 10),
     avg_pd |-> Q(6, 5), avg_lgd |-> Q(3, 2), correlation |-> Q(15, 100),
     segment_type |-> "retail"]

SegmentInputs == {Mortgages, SmeLending, Defaulted, BadCorrelation, BadPdLgd}

\* the (pd_shock, lgd_shock, ead_shock) triples stress_portfolio is called with:
\* its defaults, the identity, the multipliers of the default tightening scenario
\* and a relief below 1
StressShocks ==
    { <<Q(3, 2), Q(6, 5), Q(11, 10)>>,
      <<Q(1, 1), Q(1, 1), Q(1, 1)>>,
      <<Q(13, 10), Q(11, 10), Q(105, 100)>>,
      <<Q(1, 2), Q(4, 5), Q(11, 10)>> }

\* the (cet1_ratio, tier1_ratio) pairs calculate_capital is called with; the first
\* is the default
CapitalRatios == {<<Q(105, 1000), Q(85, 1000)>>, <<Q(12, 100), Q(10, 100)>>}

AddSegment ==
    /\ exposures.n < MaxSegments
    /\ \E seg \in SegmentInputs :
          /\ exposures' = add_segment(exposures, seg.segment_name, seg.n_loans, seg.avg_exposure,
                                      seg.avg_pd, seg.avg_lgd, seg.correlation, seg.segment_type)
          /\ ret' = Call("add_segment", seg, None, None)
    /\ UNCHANGED <<df_macro, ead_model>>

CalculateEcl ==
    /\ LET r == calculate_ecl(exposures)
       IN  /\ exposures' = r.exposures
           /\ ret' = Call("calculate_ecl", <<>>, r.raised, r.value)
    /\ UNCHANGED <<df_macro, ead_model>>

CalculateRwa ==
    /\ LET r == calculate_rwa(exposures)
       IN  /\ exposures' = r.exposures
           /\ ret' = Call("calculate_rwa", <<>>, r.raised, r.value)
    /\ UNCHANGED <<df_macro, ead_model>>

CalculateCapital ==
    /\ \E ratios \in CapitalRatios :
          LET r == calculate_capital(exposures, ratios[1], ratios[2])
          IN  /\ exposures' = r.exposures
              /\ ret' = Call("calculate_capital", ratios, r.raised, r.value)
    /\ UNCHANGED <<df_macro, ead_model>>

StressPortfolio ==
    /\ \E sh \in StressShocks :
          LET r == stress_portfolio(exposures, sh[1], sh[2], sh[3])
          IN  /\ exposures' = r.exposures
              /\ ret' = Call("stress_portfolio",
                             [pd_shock |-> sh[1], lgd_shock |-> sh[2], ead_shock |-> sh[3]],
                             r.raised, r.value)
    /\ UNCHANGED <<df_macro, ead_model>>

\* Portfolio.__init__: an empty exposures table
InitPortfolio ==
    /\ exposures = EmptyFrame
    /\ df_macro = EmptyFrame
    /\ ead_model = None
    /\ ret = NoCall

NextPortfolio ==
    \/ AddSegment
    \/ CalculateEcl
    \/ CalculateRwa
    \/ CalculateCapital
    \/ StressPortfolio

SpecPortfolio == InitPortfolio /\ [][NextPortfolio]_vars

(***************************************************************************)
(* The scenarios as actions.  A behaviour of SpecScenario draws a macro    *)
(* series and a portfolio and makes one call.                              *)
(***************************************************************************)
\* the columns the scenarios recognise, in the order the series holds them
MacroColumns ==
    <<"cash_rate", "fed_funds_rate", "unemployment_rate", "housing_price_index",
      "housing_price_growth", "credit_growth_housing", "credit_growth",
      "credit_growth_business", "bbsw_spread", "baa_spread", "funding_cost",
      "liquidity_ratio">>

\* a drawn series has at most MaxPresent of the recognised columns, or lacks at
\* most MaxAbsent of them, and has 1..MaxRows rows
MaxPresent == 2
MaxAbsent == 1
MaxRows == 2

\* the sets of at most k recognised columns
RECURSIVE UpTo(_)
UpTo(k) ==
    IF k = 0 THEN {{}}
    ELSE LET P == UpTo(k - 1) IN P \cup {S \cup {c} : S \in P, c \in Range(MacroColumns)}

ColumnSets == UpTo(MaxPresent) \cup {Range(MacroColumns) \ S : S \in UpTo(MaxAbsent)}

\* first-row values of a calm series and of one beyond the scenarios' cap and
\* floors (unemployment above 12, rates below 0.1 after the cut)
MacroLevels == {"calm", "extreme"}

MacroBase(level, c) ==
    CASE c = "cash_rate" -> IF level = "calm" THEN Q(9, 2) ELSE Q(1, 20)
      [] c = "fed_funds_rate" -> IF level = "calm" THEN Q(21, 4) ELSE Q(2, 1)
      [] c = "unemployment_rate" -> IF level = "calm" THEN Q(4, 1) ELSE Q(13, 1)
      [] c = "housing_price_index" -> IF level = "calm" THEN Q(150, 1) ELSE Q(90, 1)
      [] c = "housing_price_growth" -> IF level = "calm" THEN Q(5, 1) ELSE Q(-2, 1)
      [] c = "credit_growth_housing" -> IF level = "calm" THEN Q(8, 1) ELSE Q(1, 1)
      [] c = "credit_growth" -> IF level = "calm" THEN Q(6, 1) ELSE Q(-1, 1)
      [] c = "credit_growth_business" -> IF level = "calm" THEN Q(4, 1) ELSE Q(0, 1)
      [] c = "bbsw_spread" -> IF level = "calm" THEN Q(1, 2) ELSE Q(2, 1)
      [] c = "baa_spread" -> IF level = "calm" THEN Q(2, 1) ELSE Q(5, 1)
      [] c = "funding_cost" -> IF level = "calm" THEN Q(5, 1) ELSE Q(7, 1)
      [] c = "liquidity_ratio" -> IF level = "calm" THEN Q(13, 10) ELSE Q(1, 1)

\* a series with the given columns and n monthly rows, each row one point above
\* the row before
MacroTable(cols, n, level) ==
    [columns |-> SelectSeq(MacroColumns, LAMBDA c : c \in cols),
     n |-> n,
     data |-> [c \in cols |-> [i \in 1..n |-> FAdd(MacroBase(level, c), Q(i - 1, 1))]]]

RECURSIVE AddAll(_, _)
AddAll(exp, segs) ==
    IF segs = <<>> THEN exp
    ELSE AddAll(add_segment(exp, Head(segs).segment_name, Head(segs).n_loans,
                            Head(segs).avg_exposure, Head(segs).avg_pd, Head(segs).avg_lgd,
                            Head(segs).correlation, Head(segs).segment_type),
                Tail(segs))

\* the portfolios a scenario is applied to: three segments inside the documented
\* ranges with ECL and RWA computed, and one with segments outside them and
\* nothing computed
ScenarioPortfolios ==
    {calculate_rwa(calculate_ecl(p).exposures).exposures :
        p \in {AddAll(EmptyFrame, <<Mortgages, SmeLending, Defaulted>>)}}
    \cup {AddAll(EmptyFrame, <<Mortgages, BadCorrelation, BadPdLgd>>)}

Number(v) == [kind |-> "number", v |-> v]

\* StressScenario objects: shocks is empty after __init__; a caller may fill it
BaseScenarios ==
    { [class |-> "StressScenario", shocks |-> <<>>],
      [class |-> "StressScenario",
       shocks |-> << <<"unemployment_rate", Number(Q(1, 1))>>,
                     <<"cash_rate", [kind |-> "instant", v |-> Q(1, 2)]>>,
                     <<"credit_growth", [kind |-> "growth", v |-> Q(-1, 2)]>>,
                     <<"bbsw_spread", [kind |-> "other", v |-> Zero]>>,
                     <<"gdp_growth", Number(Q(1, 1))>> >>] }

\* TighteningScenario(rate_shock, unemployment_shock, housing_shock): the defaults
\* and a milder tightening
TighteningScenarios ==
    { [class |-> "TighteningScenario", rate_shock |-> Q(2, 1),
       unemployment_shock |-> Q(2, 1), housing_shock |-> Q(-10, 1)],
      [class |-> "TighteningScenario", rate_shock |-> Q(1, 1),
       unemployment_shock |-> Q(1, 1), housing_shock |-> Q(-5, 1)] }

SoftLandingScenarios ==
    { [class |-> "SoftLandingScenario", rate_shock |-> Q(1, 2),
       unemployment_shock |-> Q(1, 2), housing_shock |-> Q(0, 1)] }

FundingShockScenarios ==
    { [class |-> "FundingShockScenario", spread_shock |-> Q(3, 4), credit_shock |-> Q(-15, 1)] }

SevereRecessionScenarios == { [class |-> "SevereRecessionScenario"] }

\* CustomScenario(name, shocks): no shocks, the docstring's example, a fall in
\* unemployment together with a field no series has, and a housing collapse and a
\* housing boom beyond the range of the LGD multiplier
CustomScenarios ==
    { [class |-> "CustomScenario", custom_shocks |-> <<>>],
      [class |-> "CustomScenario",
       custom_shocks |-> << <<"cash_rate", Q(3, 2)>>, <<"unemployment_rate", Q(1, 1)>> >>],
      [class |-> "CustomScenario",
       custom_shocks |-> << <<"unemployment_rate", Q(-8, 1)>>, <<"gdp_growth", Q(1, 1)>> >>],
      [class |-> "CustomScenario", custom_shocks |-> << <<"housing_price_growth", Q(-60, 1)>> >>],
      [class |-> "CustomScenario", custom_shocks |-> << <<"housing_price_growth", Q(30, 1)>> >>] }

Scenarios ==
    BaseScenarios \cup TighteningScenarios \cup SoftLandingScenarios
    \cup FundingShockScenarios \cup SevereRecessionScenarios \cup CustomScenarios

\* no call has been made yet
Fresh == ret.op = "__init__"

\* ret after scenario.apply(df_macro)
Applied(sc, a) ==
    /\ df_macro' = a.df_base
    /\ ret' = Call("apply", sc, a.raised, a.value)
    /\ UNCHANGED <<exposures, ead_model>>

ApplyStressScenario ==
    Fresh /\ \E sc \in BaseScenarios : \E a \in {StressScenario_apply(sc, df_macro)} : Applied(sc, a)

ApplyTightening ==
    Fresh /\ \E sc \in TighteningScenarios : \E a \in {TighteningScenario_apply(sc, df_macro)} : Applied(sc, a)

ApplySoftLanding ==
    Fresh /\ \E sc \in SoftLandingScenarios : \E a \in {SoftLandingScenario_apply(sc, df_macro)} : Applied(sc, a)

ApplyFundingShock ==
    Fresh /\ \E sc \in FundingShockScenarios : \E a \in {FundingShockScenario_apply(sc, df_macro)} : Applied(sc, a)

ApplySevereRecession ==
    Fresh /\ \E sc \in SevereRecessionScenarios :
                \E a \in {SevereRecessionScenario_apply(sc, df_macro)} : Applied(sc, a)

ApplyCustom ==
    Fresh /\ \E sc \in CustomScenarios : \E a \in {CustomScenario_apply(sc, df_macro)} : Applied(sc, a)

ApplyScenarioToPortfolio ==
    /\ Fresh
    /\ \E sc \in Scenarios :
          \E r \in {apply_scenario_to_portfolio(exposures, sc, df_macro)} :
              /\ df_macro' = r.df_base
              /\ exposures' = r.exposures
              /\ ret' = [op |-> "apply_scenario_to_portfolio", args |-> sc,
                         raised |-> r.raised, value |-> r.value, shocks |-> r.shocks]
    /\ UNCHANGED ead_model

StressPortfolioOnce == Fresh /\ StressPortfolio

InitScenario ==
    /\ \E cols \in ColumnSets, n \in 1..MaxRows, level \in MacroLevels :
          df_macro = MacroTable(cols, n, level)
    /\ exposures \in ScenarioPortfolios
    /\ ead_model = None
    /\ ret = NoCall

NextScenario ==
    \/ ApplyStressScenario
    \/ ApplyTightening
    \/ ApplySoftLanding
    \/ ApplyFundingShock
    \/ ApplySevereRecession
    \/ ApplyCustom
    \/ ApplyScenarioToPortfolio
    \/ StressPortfolioOnce

SpecScenario == InitScenario /\ [][NextScenario]_vars

(***************************************************************************)
(* Claims about the portfolio (checked under SpecPortfolio).               *)
(***************************************************************************)
\* every cell of a numeric column is a number (not NaN)
AllNumbers(df, c) == HasCol(df, c) /\ \A i \in 1..df.n : ~IsNaN(Col(df, c)[i])

InUnitInterval(x) == FLe(Zero, x) /\ FLe(x, One)

\* exposures after calculate_ecl() then calculate_rwa()
Recalculated(exp) == calculate_rwa(calculate_ecl(exp).exposures).exposures

\* C1: recalculation is idempotent.  From every table the portfolio can hold with
\* at least one segment, calculate_ecl() and calculate_rwa() called a second time
\* leave the whole exposures table (every column of every segment) as the first
\* call left it: the stored columns are overwritten, not accumulated.
C1_RecalculationIdempotent ==
    exposures.n >= 1 => Recalculated(Recalculated(exposures)) = Recalculated(exposures)

\* C1 witness: two segments, calculate_ecl() and calculate_rwa() have run since
\* the last add_segment (non-zero values are stored for both) and the call that
\* just returned was a recalculation of that table
C1_Witness ==
    /\ exposures.n >= 2
    /\ ret.op = "calculate_rwa"
    /\ AllNumbers(exposures, "ecl_12m")
    /\ AllNumbers(exposures, "ecl_lifetime")
    /\ AllNumbers(exposures, "rwa")
    /\ \A i \in 1..exposures.n : FLt(Zero, Col(exposures, "ecl_12m")[i])
    /\ exposures = Recalculated(exposures)

\* the sum of a list of floats, NaN included
RECURSIVE SumAll(_)
SumAll(s) == IF s = <<>> THEN Zero ELSE FAdd(Head(s), SumAll(Tail(s)))

\* C2: calculate_capital() returns total_rwa equal to the sum of the RWA of every
\* segment currently in the portfolio (segments whose RWA is a number), also of a
\* segment added after the last calculate_rwa().
C2_CapitalCountsEverySegment ==
    (/\ ret.op = "calculate_capital"
     /\ ret.raised = None
     /\ \A i \in 1..exposures.n : ~IsNaN(RwaList(exposures)[i]))
    => ret.value.total_rwa = SumAll(RwaList(exposures))

\* C3: stress_portfolio returns a new table and leaves self.exposures as it was:
\* same rows, same columns, same values.
C3_StressLeavesExposures ==
    [][ret'.op = "stress_portfolio" => exposures' = exposures]_vars

\* C3 witness: stress_portfolio has returned a stressed table for a portfolio with
\* computed ECL and RWA, and the portfolio's own table has no stressed column
C3_Witness ==
    /\ ret.op = "stress_portfolio"
    /\ ret.raised = None
    /\ ret.value.n >= 2
    /\ HasCol(ret.value, "ecl_stressed")
    /\ HasCol(ret.value, "rwa_stressed")
    /\ HasCol(exposures, "ecl_12m")
    /\ HasCol(exposures, "rwa")
    /\ ~HasCol(exposures, "ecl_stressed")

DomainError == [s |-> "DomainError"]

\* C9: a segment whose avg_pd, avg_lgd or correlation is outside [0,1] is rejected
\* with DomainError and not stored, so every stored segment has PD, LGD and
\* correlation in [0,1] and total_ead >= 0.
C9_SegmentsValidated ==
    /\ (/\ ret.op = "add_segment"
        /\ ~(/\ InUnitInterval(ret.args.avg_pd)
             /\ InUnitInterval(ret.args.avg_lgd)
             /\ InUnitInterval(ret.args.correlation)))
       => ret.raised = DomainError
    /\ HasCol(exposures, "avg_pd") =>
          \A i \in 1..exposures.n :
             /\ InUnitInterval(Col(exposures, "avg_pd")[i])
             /\ InUnitInterval(Col(exposures, "avg_lgd")[i])
             /\ InUnitInterval(Col(exposures, "correlation")[i])
             /\ FLe(Zero, Col(exposures, "total_ead")[i])

\* C10: when a segment's RWA is not a number, calculate_rwa and calculate_capital
\* do not return silently: they raise, or their value carries a per-segment status.
C10_NoSilentPartialRwa ==
    (/\ ret.op \in {"calculate_rwa", "calculate_capital"}
     /\ \E i \in 1..exposures.n : IsNaN(RwaList(exposures)[i]))
    => \/ ret.raised # None
       \/ "status" \in DOMAIN ret.value

\* C11: calculate_capital returns cet1_required = total_rwa * cet1_ratio,
\* tier1_required = total_rwa * tier1_ratio and total_capital_required =
\* total_rwa * 0.125, for the default ratios and for others; an RWA of 1,000 million
\* at a ratio of 0.105 requires exactly 105 million.
C11_CapitalIsRwaTimesRatio ==
    /\ (ret.op = "calculate_capital" /\ ret.raised = None) =>
          /\ ret.value.cet1_required
                = calculate_capital_requirement(ret.value.total_rwa, ret.args[1])
          /\ ret.value.tier1_required = FMul(ret.value.total_rwa, ret.args[2])
          /\ ret.value.total_capital_required = FMul(ret.value.total_rwa, Q(125, 1000))
    /\ calculate_capital_requirement(Q(1000, 1), Q(105, 1000)) = Q(105, 1)

\* C11 happens: calculate_capital with the default ratios returned the requirements
\* of a two-segment portfolio with a positive total RWA
C11_Witness ==
    /\ ret.op = "calculate_capital"
    /\ ret.raised = None
    /\ ret.args = <<Q(105, 1000), Q(85, 1000)>>
    /\ exposures.n >= 2
    /\ FLt(Zero, ret.value.total_rwa)
    /\ FLt(ret.value.tier1_required, ret.value.cet1_required)
    /\ FLt(ret.value.cet1_required, ret.value.total_capital_required)

\* C12: after calculate_ecl() every segment has ecl_12m = avg_pd * avg_lgd * total_ead
\* with total_ead = n_loans * avg_exposure, and ecl_lifetime = 5 * ecl_12m; the
\* returned table shows the same values; 1000 loans of 0.5 million at PD 0.01 and
\* LGD 0.30 have an ecl_12m of 1.5 million.
C12_EclIsPdLgdEad ==
    (ret.op = "calculate_ecl" /\ ret.raised = None) =>
        /\ Col(ret.value, "ecl_12m") = Col(exposures, "ecl_12m")
        /\ Col(ret.value, "ecl_lifetime") = Col(exposures, "ecl_lifetime")
        /\ \A i \in 1..exposures.n :
              /\ Col(exposures, "total_ead")[i]
                    = FMul(Col(exposures, "n_loans")[i], Col(exposures, "avg_exposure")[i])
              /\ Col(exposures, "ecl_12m")[i]
                    = FMul(Col(exposures, "avg_pd")[i],
                           FMul(Col(exposures, "avg_lgd")[i],
                                FMul(Col(exposures, "n_loans")[i],
                                     Col(exposures, "avg_exposure")[i])))
              /\ Col(exposures, "ecl_lifetime")[i] = FMul(Q(5, 1), Col(exposures, "ecl_12m")[i])
              /\ ( /\ Col(exposures, "n_loans")[i] = Q(1000, 1)
                   /\ Col(exposures, "avg_exposure")[i] = Q(1, 2)
                   /\ Col(exposures, "avg_pd")[i] = Q(1, 100)
                   /\ Col(exposures, "avg_lgd")[i] = Q(30, 100) )
                    => Col(exposures, "ecl_12m")[i] = Q(3, 2)

\* C12 happens: calculate_ecl returned for a portfolio of two segments, one of them
\* the 1000 mortgages with an ecl_12m of 1.5 million and a lifetime ECL of 7.5 million
C12_Witness ==
    /\ ret.op = "calculate_ecl"
    /\ ret.raised = None
    /\ exposures.n >= 2
    /\ \E i \in 1..exposures.n :
          /\ Col(exposures, "segment")[i] = Str("Residential Mortgages")
          /\ Col(ret.value, "ecl_12m")[i] = Q(3, 2)
          /\ Col(ret.value, "ecl_lifetime")[i] = Q(15, 2)

\* the columns calculate_ecl and calculate_rwa compute
ComputedColumns == {"ecl_12m", "ecl_lifetime", "rwa"}

\* C19: add_segment appends the new segment after the existing ones, leaves their
\* values as they were and computes nothing (a computed column of the new row is
\* empty); calculate_ecl, calculate_rwa and stress_portfolio keep the rows and their
\* order and return one row per segment in that order.
C19_SegmentOrderStable ==
    [][ /\ ret'.op = "add_segment" =>
              /\ ret'.raised = None
              /\ exposures'.n = exposures.n + 1
              /\ Col(exposures', "segment")[exposures'.n] = Str(ret'.args.segment_name)
              /\ \A c \in Range(exposures.columns) : \A i \in 1..exposures.n :
                    Col(exposures', c)[i] = Col(exposures, c)[i]
              /\ \A c \in ComputedColumns :
                    HasCol(exposures', c)
                        => (HasCol(exposures, c) /\ IsNaN(Col(exposures', c)[exposures'.n]))
        /\ (ret'.op \in {"calculate_ecl", "calculate_rwa", "stress_portfolio"}
              /\ ret'.raised = None) =>
              /\ exposures'.n = exposures.n
              /\ Col(exposures', "segment") = Col(exposures, "segment")
              /\ ret'.value.n = exposures.n
              /\ Col(ret'.value, "segment") = Col(exposures, "segment")
      ]_vars

\* C19 happens: a second segment was added after calculate_ecl (its ECL is empty,
\* the first segment's is not), and calculate_rwa then returned the two segments
\* in the order of the table
C19_Witness ==
    /\ ret.op = "calculate_rwa"
    /\ ret.raised = None
    /\ exposures.n >= 2
    /\ HasCol(exposures, "ecl_12m")
    /\ ~IsNaN(Col(exposures, "ecl_12m")[1])
    /\ IsNaN(Col(exposures, "ecl_12m")[2])
    /\ Col(exposures, "segment")[1] # Col(exposures, "segment")[2]
    /\ Col(ret.value, "segment") = Col(exposures, "segment")

\* C24: in the table stress_portfolio returns, for every segment
\* avg_pd_stressed = avg_pd * pd_shock, avg_lgd_stressed = min(avg_lgd * lgd_shock, 1),
\* total_ead_stressed = total_ead * ead_shock, ecl_stressed is the product of
\* these three, and rwa_stressed = calculate_rwa_simple(stressed EAD, stressed PD,
\* stressed LGD, the segment's own correlation).
C24_StressedColumns ==
    (ret.op = "stress_portfolio" /\ ret.raised = None) =>
        \A i \in 1..ret.value.n :
            /\ Col(ret.value, "avg_pd_stressed")[i]
                  = FMul(Col(ret.value, "avg_pd")[i], ret.args.pd_shock)
            /\ Col(ret.value, "avg_lgd_stressed")[i]
                  = (IF FLe(FMul(Col(ret.value, "avg_lgd")[i], ret.args.lgd_shock), One)
                     THEN FMul(Col(ret.value, "avg_lgd")[i], ret.args.lgd_shock)
                     ELSE One)
            /\ Col(ret.value, "total_ead_stressed")[i]
                  = FMul(Col(ret.value, "total_ead")[i], ret.args.ead_shock)
            /\ Col(ret.value, "ecl_stressed")[i]
                  = FMul(FMul(Col(ret.value, "avg_pd_stressed")[i],
                              Col(ret.value, "avg_lgd_stressed")[i]),
                         Col(ret.value, "total_ead_stressed")[i])
            /\ Col(ret.value, "rwa_stressed")[i]
                  = calculate_rwa_simple(Col(ret.value, "total_ead_stressed")[i],
                                         Col(ret.value, "avg_pd_stressed")[i],
                                         Col(ret.value, "avg_lgd_stressed")[i],
                                         Col(ret.value, "correlation")[i])

\* two segments stressed with shocks other than 1, the LGD cap binding for one
\* segment and not for the other
C24_Witness ==
    /\ ret.op = "stress_portfolio"
    /\ ret.raised = None
    /\ ret.value.n = 2
    /\ ret.args.pd_shock # One
    /\ ret.args.ead_shock # One
    /\ \E i, j \in 1..2 :
          /\ FLt(One, FMul(Col(ret.value, "avg_lgd")[i], ret.args.lgd_shock))
          /\ Col(ret.value, "avg_lgd_stressed")[i] = One
          /\ FLt(Col(ret.value, "avg_lgd_stressed")[j], One)
          /\ FLt(Zero, Col(ret.value, "rwa_stressed")[j])

(***************************************************************************)
(* The EAD model as actions.                                               *)
(***************************************************************************)
\* credit conversion factors: the default 0.75, 0.5 and 1, and 1.2 above the range
Ccfs == {Q(3, 4), Q(1, 2), Q(1, 1), Q(6, 5)}

\* drawn amounts and commitments in millions: drawn = 1.2 above a commitment of 1,
\* and a negative drawn amount
DrawnAmounts == {Q(0, 1), Q(1, 2), Q(1, 1), Q(6, 5), Q(-1, 10)}

Commitments == {Q(1, 1), Q(2, 1)}

\* usage_rate: not given, or an observed rate (0: nothing more is drawn)
UsageRates == {None, Q(0, 1), Q(1, 2), Q(1, 1)}

\* stress_factor: the default 1.5, and 1, 2 and a relief of 0.5
StressFactors == {Q(3, 2), Q(1, 1), Q(2, 1), Q(1, 2)}

NewEadModel ==
    /\ \E ccf \in Ccfs :
          /\ ead_model' = EADModel(ccf)
          /\ ret' = Call("EADModel", [ccf |-> ccf], None, None)
    /\ UNCHANGED <<exposures, df_macro>>

EadCalculate ==
    /\ ~IsNone(ead_model)
    /\ \E drawn_amount \in DrawnAmounts, commitment \in Commitments, usage_rate \in UsageRates :
          \E r \in {EADModel_calculate(ead_model, drawn_amount, commitment, usage_rate)} :
              ret' = Call("calculate",
                          [drawn_amount |-> drawn_amount, commitment |-> commitment,
                           usage_rate |-> usage_rate],
                          r.raised, r.value)
    /\ UNCHANGED <<exposures, df_macro, ead_model>>

EadCalculateStressed ==
    /\ ~IsNone(ead_model)
    /\ \E drawn_amount \in DrawnAmounts, commitment \in Commitments,
          stress_factor \in StressFactors :
          \E r \in {EADModel_calculate_stressed(ead_model, drawn_amount, commitment,
                                                stress_factor)} :
              ret' = Call("calculate_stressed",
                          [drawn_amount |-> drawn_amount, commitment |-> commitment,
                           stress_factor |-> stress_factor],
                          r.raised, r.value)
    /\ UNCHANGED <<exposures, df_macro, ead_model>>

InitEad ==
    /\ exposures = EmptyFrame
    /\ df_macro = EmptyFrame
    /\ ead_model = None
    /\ ret = NoCall

NextEad ==
    \/ NewEadModel
    \/ EadCalculate
    \/ EadCalculateStressed

SpecEad == InitEad /\ [][NextEad]_vars

(***************************************************************************)
(* Claims about the scenarios (checked under SpecScenario).                *)
(***************************************************************************)
ScenarioCalls == {"apply", "apply_scenario_to_portfolio"}

\* C4: a scenario's apply, and apply_scenario_to_portfolio, leave the macro series
\* they are given exactly as it was; the stressed series is a separate table.
C4_MacroSeriesUnchanged ==
    [][ret'.op \in ScenarioCalls => df_macro' = df_macro]_vars

\* C4 happens: a scenario applied to a portfolio over a series with two rows returned
\* a stressed series that differs from the series it was given
C4_Witness ==
    /\ ret.op = "apply_scenario_to_portfolio"
    /\ ret.raised = None
    /\ df_macro.n >= 2
    /\ HasCol(df_macro, "unemployment_rate")
    /\ ret.value.df_stressed # df_macro
    /\ Latest(ret.value.df_stressed, "unemployment_rate") # Latest(df_macro, "unemployment_rate")

\* C5: a shock on a field the series lacks is skipped without an error, for every
\* scenario and every subset of the recognised columns -- a series with bbsw_spread
\* but no cash_rate under the funding shock included.
C5_AbsentFieldsSkipped == ret.op = "apply" => ret.raised = None

\* C6: a custom scenario with an empty shock mapping returns a series equal to its input.
C6_EmptyCustomIsIdentity ==
    (ret.op = "apply" /\ ret.args.class = "CustomScenario" /\ ret.args.custom_shocks = <<>>)
        => (ret.raised = None /\ ret.value = df_macro)

\* C6 happens: an empty custom scenario was applied to a series with two columns and
\* two rows
C6_Witness ==
    /\ ret.op = "apply"
    /\ ret.args.class = "CustomScenario"
    /\ ret.args.custom_shocks = <<>>
    /\ df_macro.n >= 2
    /\ Len(df_macro.columns) >= 2
    /\ ret.value = df_macro

\* the table stress_portfolio returned, directly or through apply_scenario_to_portfolio
StressedTable ==
    IF ret.op = "stress_portfolio" THEN ret.value ELSE ret.value.stressed_results

\* the three shocks it was called with
ShocksUsed == IF ret.op = "stress_portfolio" THEN ret.args ELSE ret.shocks

ShocksAtLeastOne ==
    /\ FLe(One, ShocksUsed.pd_shock)
    /\ FLe(One, ShocksUsed.lgd_shock)
    /\ FLe(One, ShocksUsed.ead_shock)

\* row i has pd and lgd in [0,1] and ead >= 0
RowInRange(t, i) ==
    /\ InUnitInterval(Col(t, "avg_pd")[i])
    /\ InUnitInterval(Col(t, "avg_lgd")[i])
    /\ FLe(Zero, Col(t, "total_ead")[i])

\* C7: with pd, lgd in [0,1] and ead >= 0, and all three shocks at least 1, the
\* stressed ECL of a segment is at least its baseline ECL pd * lgd * ead, and so is the
\* portfolio total; the multipliers derived from a tightening scenario (unemployment
\* up, housing down) are all at least 1.
C7_StressedEclAtLeastBaseline ==
    (ret.op \in {"stress_portfolio", "apply_scenario_to_portfolio"} /\ ret.raised = None)
        => /\ ShocksAtLeastOne =>
                \A i \in 1..StressedTable.n :
                    RowInRange(StressedTable, i)
                        => FLe(Ecl12m(StressedTable, i), Col(StressedTable, "ecl_stressed")[i])
           /\ (ShocksAtLeastOne /\ \A i \in 1..StressedTable.n : RowInRange(StressedTable, i))
                => FLe(SumAll([i \in 1..StressedTable.n |-> Ecl12m(StressedTable, i)]),
                       SumAll(Col(StressedTable, "ecl_stressed")))
           /\ ( /\ ret.op = "apply_scenario_to_portfolio"
                /\ ret.args.class = "TighteningScenario"
                /\ FLe(Zero, ret.args.unemployment_shock)
                /\ FLe(ret.args.housing_shock, Zero) )
                => ShocksAtLeastOne

\* C7 happens: the default tightening over two rows gave the multipliers 1.3, 1.1 and
\* 1.05, and every segment is in range with a stressed ECL above its baseline
C7_Witness ==
    /\ ret.op = "apply_scenario_to_portfolio"
    /\ ret.raised = None
    /\ ret.args.class = "TighteningScenario"
    /\ ret.shocks = [pd_shock |-> Q(13, 10), lgd_shock |-> Q(11, 10), ead_shock |-> Q(105, 100)]
    /\ StressedTable.n >= 2
    /\ \A i \in 1..StressedTable.n :
          /\ RowInRange(StressedTable, i)
          /\ FLt(Ecl12m(StressedTable, i), Col(StressedTable, "ecl_stressed")[i])

\* C15: apply_scenario_to_portfolio derives its shocks from the last period of the
\* baseline and of the stressed series only:
\*   pd_shock = 1 + ((stressed unemployment - baseline unemployment) / 2) * 0.3,
\*   lgd_shock = clip(1 - ((stressed housing growth - baseline housing growth) / 10) * 0.1,
\*                    0.8, 1.5),
\*   ead_shock = 1.05,
\* a multiplier being 1 when its field is absent; it returns the table
\* stress_portfolio gives for these shocks together with the stressed series.
C15_ShocksFromLastPeriod ==
    (ret.op = "apply_scenario_to_portfolio" /\ ret.raised = None) =>
        LET stressed == ret.value.df_stressed
            n == df_macro.n
            pd_shock ==
                IF HasCol(stressed, "unemployment_rate")
                THEN FAdd(One, FMul(FMul(FSub(Col(stressed, "unemployment_rate")[n],
                                              Col(df_macro, "unemployment_rate")[n]),
                                         Q(1, 2)),
                                    Q(3, 10)))
                ELSE One
            lgd_shock ==
                IF HasCol(stressed, "housing_price_growth")
                THEN FClip(FSub(One, FMul(FMul(FSub(Col(stressed, "housing_price_growth")[n],
                                                    Col(df_macro, "housing_price_growth")[n]),
                                               Q(1, 10)),
                                          Q(1, 10))),
                           Q(8, 10), Q(15, 10))
                ELSE One
        IN  /\ stressed = Apply(ret.args, df_macro).value
            /\ stressed.n = n
            /\ ret.shocks = [pd_shock |-> pd_shock, lgd_shock |-> lgd_shock,
                             ead_shock |-> Q(105, 100)]
            /\ ret.value.stressed_results
                  = stress_portfolio(exposures, pd_shock, lgd_shock, Q(105, 100)).value

\* C15 happens: the severe recession over two periods with unemployment and housing
\* growth gave a PD multiplier above 1 from the last period's unemployment and an
\* LGD multiplier strictly inside the clipping range
C15_Witness ==
    /\ ret.op = "apply_scenario_to_portfolio"
    /\ ret.raised = None
    /\ ret.args.class = "SevereRecessionScenario"
    /\ df_macro.n >= 2
    /\ HasCol(df_macro, "unemployment_rate")
    /\ HasCol(df_macro, "housing_price_growth")
    /\ FLt(One, ret.shocks.pd_shock)
    /\ FLt(One, ret.shocks.lgd_shock)
    /\ FLt(ret.shocks.lgd_shock, Q(15, 10))
    /\ HasCol(ret.value.stressed_results, "ecl_stressed")

\* the stressed series a scenario returned, from apply or from
\* apply_scenario_to_portfolio
StressedSeries == IF ret.op = "apply" THEN ret.value ELSE ret.value.df_stressed

\* C17: after the severe recession, at every period the stressed unemployment_rate
\* is at most 12 and the stressed cash_rate and fed_funds_rate are at least 0.1.
C17_RecessionCapAndFloors ==
    ( /\ ret.op \in ScenarioCalls
      /\ ret.args.class = "SevereRecessionScenario"
      /\ ret.raised = None )
        => \A i \in 1..StressedSeries.n :
              /\ HasCol(StressedSeries, "unemployment_rate")
                    => FLe(Col(StressedSeries, "unemployment_rate")[i], Q(12, 1))
              /\ HasCol(StressedSeries, "cash_rate")
                    => FLe(Q(1, 10), Col(StressedSeries, "cash_rate")[i])
              /\ HasCol(StressedSeries, "fed_funds_rate")
                    => FLe(Q(1, 10), Col(StressedSeries, "fed_funds_rate")[i])

\* C17 happens: the severe recession was applied to two periods with unemployment
\* above 12 and a cash rate below 3.1; the stressed unemployment is 12 and the
\* stressed cash rate 0.1 at every period
C17_Witness ==
    /\ ret.op = "apply"
    /\ ret.args.class = "SevereRecessionScenario"
    /\ df_macro.n >= 2
    /\ HasCol(df_macro, "unemployment_rate")
    /\ HasCol(df_macro, "cash_rate")
    /\ \A i \in 1..df_macro.n :
          /\ FLt(Q(12, 1), Col(df_macro, "unemployment_rate")[i])
          /\ FLt(Col(df_macro, "cash_rate")[i], Q(31, 10))
          /\ Col(ret.value, "unemployment_rate")[i] = Q(12, 1)
          /\ Col(ret.value, "cash_rate")[i] = Q(1, 10)

\* the shock a custom mapping holds for field c, 0 when c is not named
RECURSIVE ShockFor(_, _)
ShockFor(shocks, c) ==
    IF shocks = <<>> THEN Zero
    ELSE IF Head(shocks)[1] = c THEN Head(shocks)[2] ELSE ShockFor(Tail(shocks), c)

\* C18: a custom scenario adds the same constant at every time point: every row of
\* a field that is named and present is the baseline value plus the field's shock,
\* and every field that is not named is unchanged at every row.
C18_CustomAddsConstant ==
    (ret.op = "apply" /\ ret.args.class = "CustomScenario") =>
        /\ ret.raised = None
        /\ ret.value.columns = df_macro.columns
        /\ ret.value.n = df_macro.n
        /\ \A c \in Range(df_macro.columns) : \A i \in 1..df_macro.n :
              Col(ret.value, c)[i] = FAdd(Col(df_macro, c)[i], ShockFor(ret.args.custom_shocks, c))

\* C18 happens: the mapping {cash_rate: 1.5, unemployment_rate: 1.0} was applied to
\* a series of two periods that has both fields and others; cash_rate is 1.5 higher
\* at both periods and a field that is not named is as it was
C18_Witness ==
    /\ ret.op = "apply"
    /\ ret.args.class = "CustomScenario"
    /\ Len(ret.args.custom_shocks) = 2
    /\ df_macro.n >= 2
    /\ HasCol(df_macro, "cash_rate")
    /\ HasCol(df_macro, "unemployment_rate")
    /\ HasCol(df_macro, "baa_spread")
    /\ \A i \in 1..df_macro.n :
          /\ Col(ret.value, "cash_rate")[i] = FAdd(Col(df_macro, "cash_rate")[i], Q(3, 2))
          /\ Col(ret.value, "unemployment_rate")[i] # Col(df_macro, "unemployment_rate")[i]
          /\ Col(ret.value, "baa_spread")[i] = Col(df_macro, "baa_spread")[i]

(***************************************************************************)
(* The tightening scenario over series longer than its ramps.              *)
(***************************************************************************)
\* the longest series of SpecRamp
MaxPeriods == 26

\* the fields the tightening scenario shocks at once or along a ramp
RampColumns == {"cash_rate", "unemployment_rate", "housing_price_growth"}

InitRamp ==
    /\ \E n \in 1..MaxPeriods, level \in MacroLevels :
          df_macro = MacroTable(RampColumns, n, level)
    /\ exposures = EmptyFrame
    /\ ead_model = None
    /\ ret = NoCall

NextRamp == ApplyTightening

SpecRamp == InitRamp /\ [][NextRamp]_vars

\* what the scenario added to field c at period i
Added(c, i) == FSub(Col(ret.value, c)[i], Col(df_macro, c)[i])

\* the shock added to field c is 0 at the first period, rises linearly, and is the
\* full shock at the end of the ramp (period min(len, n)) and at every later period
RampsTo(c, shock, len) ==
    LET m == Min(len, df_macro.n)
    IN  /\ Added(c, 1) = Zero
        /\ \A i \in 1..df_macro.n :
              Added(c, i) = IF i >= m THEN shock ELSE FMul(shock, Q(i - 1, m - 1))

\* C16: for a series of any length n >= 1 the tightening scenario adds to
\* unemployment_rate a shock that is 0 at the first period, rises linearly and is
\* the full unemployment_shock at the end of the ramp and from the 12th period on,
\* the same for housing_price_growth over 24 periods, and adds the rate shock in
\* full at every period.
C16_TighteningRamp ==
    (ret.op = "apply" /\ ret.args.class = "TighteningScenario") =>
        /\ ret.raised = None
        /\ HasCol(df_macro, "unemployment_rate")
              => RampsTo("unemployment_rate", ret.args.unemployment_shock, 12)
        /\ HasCol(df_macro, "housing_price_growth")
              => RampsTo("housing_price_growth", ret.args.housing_shock, 24)
        /\ HasCol(df_macro, "cash_rate")
              => \A i \in 1..df_macro.n : Added("cash_rate", i) = ret.args.rate_shock

(***************************************************************************)
(* Claims about the EAD model (checked under SpecEad).                     *)
(***************************************************************************)
\* C8: calculate and calculate_stressed raise DomainError when drawn > commitment or
\* drawn < 0, and do not return an EAD computed from a negative undrawn amount.
C8_EadInputsValidated ==
    ( /\ ret.op \in {"calculate", "calculate_stressed"}
      /\ \/ FLt(ret.args.commitment, ret.args.drawn_amount)
         \/ FLt(ret.args.drawn_amount, Zero) )
        => ret.raised = DomainError

(***************************************************************************)
(* core.py: CreditAvailabilityIndex.  A Series is a sequence of floats.    *)
(***************************************************************************)
\* the weights of CreditAvailabilityIndex()
DefaultWeights ==
    [rate |-> Q(-3, 10), credit_growth |-> Q(4, 10),
     unemployment |-> Q(-2, 10), gdp_growth |-> Q(1, 10)]

\* CreditAvailabilityIndex.__init__
CreditAvailabilityIndex(weights) ==
    [weights |-> IF IsNone(weights) THEN DefaultWeights ELSE weights]

\* the integer square root; exact on the squares
IntSqrt(k) == CHOOSE r \in 0..k : r * r <= k /\ (r + 1) * (r + 1) > k

\* the square root of a float: NaN below zero; exact where numerator and
\* denominator are squares, which the variances of the series drawn below are
FSqrt(x) ==
    IF IsNaN(x) \/ x.n < 0 THEN NaN
    ELSE IF IsInf(x) THEN x
    ELSE [n |-> IntSqrt(x.n), d |-> IntSqrt(x.d)]

NotNa(x) == ~IsNaN(x)

\* Series.mean(): the mean of the cells that are not NaN, NaN when there are none
SeriesMean(s) == FDiv(SumSkipNa(s), Q(Len(SelectSeq(s, NotNa)), 1))

\* Series.std(): the sample standard deviation (ddof = 1) of the cells that are
\* not NaN; NaN for fewer than two cells
SeriesStd(s) ==
    LET v == SelectSeq(s, NotNa)
        m == SeriesMean(v)
        sq == [i \in 1..Len(v) |-> FMul(FSub(v[i], m), FSub(v[i], m))]
    IN  IF Len(v) < 2 THEN NaN
        ELSE FSqrt(FDiv(SumSkipNa(sq), Q(Len(v) - 1, 1)))

\* (s - s.mean()) / s.std()
ZScore(s) ==
    LET m == SeriesMean(s)
        sd == SeriesStd(s)
    IN  [i \in 1..Len(s) |-> FDiv(FSub(s[i], m), sd)]

\* CreditAvailabilityIndex.calculate: the first missing column raises KeyError
CreditAvailabilityIndex_calculate(self, df, rate_col, credit_col, unemp_col, gdp_col) ==
    IF \E c \in {rate_col, credit_col, unemp_col, gdp_col} : ~HasCol(df, c)
    THEN Returned(KeyError, None)
    ELSE LET rate_z == ZScore(Col(df, rate_col))
             credit_z == ZScore(Col(df, credit_col))
             unemp_z == ZScore(Col(df, unemp_col))
             gdp_z == ZScore(Col(df, gdp_col))
             cai_raw == [i \in 1..df.n |->
                           FAdd(FAdd(FAdd(FMul(self.weights.rate, rate_z[i]),
                                          FMul(self.weights.credit_growth, credit_z[i])),
                                     FMul(self.weights.unemployment, unemp_z[i])),
                                FMul(self.weights.gdp_growth, gdp_z[i]))]
         IN  Returned(None,
                      [i \in 1..df.n |->
                          FClip(FAdd(Q(50, 1), FMul(Q(10, 1), cai_raw[i])),
                                Zero, Q(100, 1))])

(***************************************************************************)
(* core.py: LGDModel.  A numeric argument is a Python float or a pandas     *)
(* Series: [kind |-> "float" or "Series", v |-> the sequence of its cells   *)
(* (one cell for a float)].  numpy hands a float back as "np.float64".      *)
(***************************************************************************)
Scalar(x) == [kind |-> "float", v |-> <<x>>]

Series(s) == [kind |-> "Series", v |-> s]

ZeroDivisionError == [s |-> "ZeroDivisionError"]

AttributeError == [s |-> "AttributeError"]

\* cell i of an operand of an elementwise operation (a float is broadcast)
Cell(x, i) == IF x.kind = "Series" THEN x.v[i] ELSE x.v[1]

\* LGDModel.__init__
LGDModel(base_lgd) == [base_lgd |-> base_lgd]

\* LGDModel.calculate_secured; recovery_rate is a Python float: dividing a
\* Python float by 0.0 raises, dividing a Series by it gives inf or NaN cells;
\* np.maximum returns an np.float64 for a float, which has a clip method
LGDModel_calculate_secured(self, ltv_ratio, recovery_rate) ==
    IF ltv_ratio.kind = "float" /\ recovery_rate.n = 0
    THEN Returned(ZeroDivisionError, None)
    ELSE Returned(None,
                  [kind |-> IF ltv_ratio.kind = "float" THEN "np.float64" ELSE "Series",
                   v |-> [i \in 1..Len(ltv_ratio.v) |->
                            FClip(FMax(Zero, FSub(FDiv(ltv_ratio.v[i], recovery_rate), One)),
                                  Zero, One)]])

\* LGDModel.calculate_downturn: with two Python floats the division by 0.0
\* raises ZeroDivisionError and the product is a Python float, which has no
\* clip method; with a Series the cells are numpy floats
LGDModel_calculate_downturn(self, base_lgd, housing_price_change) ==
    LET denominator == [i \in 1..Len(housing_price_change.v) |->
                          FAdd(One, FDiv(housing_price_change.v[i], Q(100, 1)))]
        k == IF base_lgd.kind = "Series" THEN Len(base_lgd.v)
             ELSE Len(housing_price_change.v)
    IN  IF housing_price_change.kind = "float" /\ denominator[1].n = 0
        THEN Returned(ZeroDivisionError, None)
        ELSE IF housing_price_change.kind = "float" /\ base_lgd.kind = "float"
        THEN Returned(AttributeError, None)
        ELSE Returned(None,
                      Series([i \in 1..k |->
                                FClip(FMul(Cell(base_lgd, i),
                                           FDiv(One, Cell(Series(denominator), 
                                                          IF housing_price_change.kind = "Series"
                                                          THEN i ELSE 1))),
                                      Zero, One)]))

\* LGDModel.calculate_simple
LGDModel_calculate_simple(self, df, collateral_type, price_col) ==
    IF collateral_type = "housing"
    THEN IF ~HasCol(df, price_col) THEN Returned(KeyError, None)
         ELSE Returned(None,
                       Series([i \in 1..df.n |->
                                 FClip(FMul(Q(20, 100),
                                            FSub(One, FMul(FDiv(Col(df, price_col)[i], Q(100, 1)),
                                                           Q(1, 2)))),
                                       Q(5, 100), Q(60, 100))]))
    ELSE Returned(None, Series([i \in 1..df.n |-> self.base_lgd]))

\* the arguments of the last EAD call satisfy commitment >= drawn >= 0
EadInputsValid ==
    FLe(Zero, ret.args.drawn_amount) /\ FLe(ret.args.drawn_amount, ret.args.commitment)

\* drawn + f * (commitment - drawn) for the arguments of the last EAD call
EadWith(f) ==
    FAdd(ret.args.drawn_amount,
         FMul(f, FSub(ret.args.commitment, ret.args.drawn_amount)))

\* the factor each method is to use
EadFactor ==
    IF ret.op = "calculate"
    THEN (IF ret.args.usage_rate = None THEN ead_model.ccf ELSE ret.args.usage_rate)
    ELSE (IF FLe(FMul(ead_model.ccf, ret.args.stress_factor), One)
          THEN FMul(ead_model.ccf, ret.args.stress_factor) ELSE One)

\* C25: calculate returns drawn + f * (commitment - drawn) with f the usage_rate
\* whenever one is given (0 included) and the CCF otherwise; calculate_stressed
\* uses f = min(1, CCF * stress_factor); for commitment >= drawn >= 0 and
\* 0 <= f <= 1 the result lies between drawn and commitment, and the stressed
\* EAD is not below the unstressed EAD when stress_factor >= 1.
C25_EadFormulaAndBounds ==
    ret.op \in {"calculate", "calculate_stressed"} =>
        /\ ret.raised = None
        /\ ret.value = EadWith(EadFactor)
        /\ (EadInputsValid /\ InUnitInterval(EadFactor))
           => FLe(ret.args.drawn_amount, ret.value) /\ FLe(ret.value, ret.args.commitment)
        /\ (ret.op = "calculate_stressed" /\ EadInputsValid
            /\ InUnitInterval(ead_model.ccf) /\ FLe(One, ret.args.stress_factor))
           => FLe(EadWith(ead_model.ccf), ret.value)

\* a usage_rate of 0 was supplied to a model with a positive CCF for a facility
\* with an undrawn amount, and the EAD is the drawn amount
C25_Witness ==
    /\ ret.op = "calculate"
    /\ ret.args.usage_rate = Zero
    /\ FLt(Zero, ead_model.ccf)
    /\ FLe(Zero, ret.args.drawn_amount)
    /\ FLt(ret.args.drawn_amount, ret.args.commitment)
    /\ ret.value = ret.args.drawn_amount

(***************************************************************************)
(* The functions of core.py as actions: each call draws its arguments and  *)
(* records them with the value returned.                                   *)
(***************************************************************************)
\* origination and current PDs: unchanged, exactly doubled, more than doubled
OriginationPds == {Q(1, 100), Q(2, 100)}

CurrentPds == {Q(1, 100), Q(2, 100), Q(4, 100), Q(5, 100)}

\* days past due, on both sides of 90
DaysPastDue == {0, 30, 90, 91, 120}

Stages == {1, 2, 3}

\* the most loans in a table given to calculate_portfolio_ecl
MaxLoans == 2

\* (pd, lgd) of a loan
LoanRows == {<<Q(1, 10), Q(1, 2)>>, <<Q(1, 5), Q(1, 1)>>}

\* the table with the columns pd and lgd for a list of loans
LoanTable(rows) ==
    [columns |-> <<"pd", "lgd">>,
     n |-> Len(rows),
     data |-> [k \in {"pd", "lgd"} |->
                  [i \in 1..Len(rows) |-> IF k = "pd" THEN rows[i][1] ELSE rows[i][2]]]]

\* the tables calculate_portfolio_ecl is given, one of them without the lgd column
LoanTables ==
    {LoanTable(rows) : rows \in UNION {[1..k -> LoanRows] : k \in 1..MaxLoans}}
    \cup {Project(LoanTable(<<<<Q(1, 10), Q(1, 2)>>>>), <<"pd">>)}

\* exposures at default of a loan, in millions
Exposures == {Q(1, 1), Q(2, 1)}

\* the stage calculate_portfolio_ecl is called with: given directly, or the value
\* stage_classification has just returned for a loan
StageInputs ==
    {[stage |-> s, loan |-> None] : s \in Stages}
    \cup (IF ret.op = "stage_classification"
          THEN {[stage |-> ret.value, loan |-> ret.args]} ELSE {})

\* the arguments of calculate_rwa_simple: EAD in millions, PDs below, inside and
\* above the clipping range, and the retail and corporate correlations
RwaEads == {Q(1, 1), Q(500, 1)}

RwaPds == {Q(0, 1), Q(1, 100), Q(5, 100), Q(1, 4), Q(1, 2), Q(1, 1)}

RwaLgds == {Q(30, 100), Q(45, 100)}

RwaCorrelations == {Q(15, 100), Q(24, 100)}

\* RWA in millions and target ratios for calculate_capital_requirement
RwaTotals == {Q(1000, 1), Q(0, 1), Q(3817, 10)}

Cet1Ratios == {Q(105, 1000), Q(45, 1000)}

\* the functions keep no state, so a call is modelled from the initial state; only
\* calculate_portfolio_ecl is also modelled after stage_classification, whose
\* value it may be given
StageClassification ==
    /\ Fresh
    /\ \E current_pd \in CurrentPds, origination_pd \in OriginationPds, dpd \in DaysPastDue :
          ret' = Call("stage_classification",
                      [current_pd |-> current_pd, origination_pd |-> origination_pd, dpd |-> dpd],
                      None, stage_classification(current_pd, origination_pd, dpd))
    /\ UNCHANGED <<exposures, df_macro, ead_model>>

CalculatePortfolioEcl ==
    /\ Fresh \/ ret.op = "stage_classification"
    /\ \E df \in LoanTables, staged \in StageInputs :
          \E exposure \in [1..df.n -> Exposures] :
              \E r \in {calculate_portfolio_ecl(df, exposure, staged.stage)} :
                  ret' = Call("calculate_portfolio_ecl",
                              [df |-> df, exposure |-> exposure, stage |-> staged.stage,
                               loan |-> staged.loan],
                              r.raised, r.value)
    /\ UNCHANGED <<exposures, df_macro, ead_model>>

CalculateRwaSimple ==
    /\ Fresh
    /\ \E ead \in RwaEads, pd \in RwaPds, lgd \in RwaLgds, correlation \in RwaCorrelations :
          ret' = Call("calculate_rwa_simple",
                      [ead |-> ead, pd |-> pd, lgd |-> lgd, correlation |-> correlation],
                      None, calculate_rwa_simple(ead, pd, lgd, correlation))
    /\ UNCHANGED <<exposures, df_macro, ead_model>>

CalculateCapitalRequirement ==
    /\ Fresh
    /\ \E rwa \in RwaTotals, cet1_ratio \in Cet1Ratios :
          ret' = Call("calculate_capital_requirement",
                      [rwa |-> rwa, cet1_ratio |-> cet1_ratio],
                      None, calculate_capital_requirement(rwa, cet1_ratio))
    /\ UNCHANGED <<exposures, df_macro, ead_model>>

\* the columns CreditAvailabilityIndex.calculate reads by default
CaiColumns == <<"cash_rate", "credit_growth_housing", "unemployment_rate", "gdp_growth">>

\* a column of a series for the index: a single observation, a constant column,
\* an evenly rising column and an uneven one (sample variances 0, 4 and 49)
CaiSeries ==
    {<<Q(2, 1)>>,
     <<Q(2, 1), Q(2, 1), Q(2, 1)>>,
     <<Q(1, 1), Q(3, 1), Q(5, 1)>>,
     <<Q(11, 1), Q(13, 1), Q(0, 1)>>}

\* the series: every column drawn independently with the same number of rows,
\* and one series without the gdp_growth column
CaiTables ==
    {[columns |-> CaiColumns, n |-> Len(cols[1]),
      data |-> [k \in Range(CaiColumns) |->
                  cols[CHOOSE j \in 1..4 : CaiColumns[j] = k]]] :
        cols \in {c \in [1..4 -> CaiSeries] : \A j \in 1..4 : Len(c[j]) = Len(c[1])}}
    \cup {[columns |-> <<"cash_rate", "credit_growth_housing", "unemployment_rate">>,
           n |-> 1,
           data |-> [k \in {"cash_rate", "credit_growth_housing", "unemployment_rate"} |->
                       <<Q(2, 1)>>]]}

\* the weights argument: the default, and weights ten times as strong
CaiWeights ==
    {None,
     [rate |-> Q(-3, 1), credit_growth |-> Q(4, 1),
      unemployment |-> Q(-2, 1), gdp_growth |-> Q(1, 1)]}

CaiCalculate ==
    /\ Fresh
    /\ \E weights \in CaiWeights, df \in CaiTables :
          \E r \in {CreditAvailabilityIndex_calculate(CreditAvailabilityIndex(weights), df,
                        "cash_rate", "credit_growth_housing", "unemployment_rate",
                        "gdp_growth")} :
              ret' = Call("CreditAvailabilityIndex.calculate",
                          [weights |-> weights, df |-> df], r.raised, r.value)
    /\ UNCHANGED <<exposures, df_macro, ead_model>>

\* loan-to-value ratios inside and outside [0, 1], as floats and as a Series
LtvRatios ==
    {Scalar(Q(8, 10)), Scalar(Q(9, 10)), Scalar(Q(5, 2)), Scalar(Q(-1, 2)),
     Series(<<Q(8, 10), Q(5, 2)>>), Series(<<Q(0, 1), Q(9, 10)>>)}

RecoveryRates == {Q(8, 10), Q(0, 1)}

\* base LGDs and housing price changes in percent (a fall of 20, of 100 and of
\* 150, a rise of 10), as floats and as Series
BaseLgds == {Scalar(Q(45, 100)), Series(<<Q(45, 100), Q(0, 1)>>)}

HousingPriceChanges ==
    {Scalar(Q(-20, 1)), Scalar(Q(-100, 1)), Scalar(Q(-150, 1)),
     Series(<<Q(-20, 1), Q(-100, 1)>>), Series(<<Q(-150, 1), Q(10, 1)>>)}

\* the series calculate_simple is given: housing price growth in percent, and
\* one series without that column
PriceGrowths == {Q(0, 1), Q(-100, 1), Q(-1000, 1), Q(400, 1)}

PriceTables ==
    {[columns |-> <<"housing_price_growth">>, n |-> 2,
      data |-> [k \in {"housing_price_growth"} |-> <<a, b>>]] : a, b \in PriceGrowths}
    \cup {[columns |-> <<"cash_rate">>, n |-> 1,
           data |-> [k \in {"cash_rate"} |-> <<Q(2, 1)>>]]}

CollateralTypes == {"housing", "unsecured"}

LgdCalculateSecured ==
    /\ Fresh
    /\ \E ltv_ratio \in LtvRatios, recovery_rate \in RecoveryRates :
          \E r \in {LGDModel_calculate_secured(LGDModel(Q(45, 100)), ltv_ratio, recovery_rate)} :
              ret' = Call("LGDModel.calculate_secured",
                          [ltv_ratio |-> ltv_ratio, recovery_rate |-> recovery_rate],
                          r.raised, r.value)
    /\ UNCHANGED <<exposures, df_macro, ead_model>>

LgdCalculateDownturn ==
    /\ Fresh
    /\ \E base_lgd \in BaseLgds, housing_price_change \in HousingPriceChanges :
          \E r \in {LGDModel_calculate_downturn(LGDModel(Q(45, 100)), base_lgd,
                                                housing_price_change)} :
              ret' = Call("LGDModel.calculate_downturn",
                          [base_lgd |-> base_lgd,
                           housing_price_change |-> housing_price_change],
                          r.raised, r.value)
    /\ UNCHANGED <<exposures, df_macro, ead_model>>

LgdCalculateSimple ==
    /\ Fresh
    /\ \E df \in PriceTables, collateral_type \in CollateralTypes :
          \E r \in {LGDModel_calculate_simple(LGDModel(Q(45, 100)), df, collateral_type,
                                              "housing_price_growth")} :
              ret' = Call("LGDModel.calculate_simple",
                          [df |-> df, collateral_type |-> collateral_type],
                          r.raised, r.value)
    /\ UNCHANGED <<exposures, df_macro, ead_model>>

InitCore ==
    /\ ret = NoCall
    /\ exposures = EmptyFrame
    /\ df_macro = EmptyFrame
    /\ ead_model = None

NextCore ==
    \/ StageClassification
    \/ CalculatePortfolioEcl
    \/ CalculateRwaSimple
    \/ CalculateCapitalRequirement
    \/ CaiCalculate
    \/ LgdCalculateSecured
    \/ LgdCalculateDownturn
    \/ LgdCalculateSimple

SpecCore == InitCore /\ [][NextCore]_vars

Ecl12mOfCall ==
    [i \in 1..ret.args.df.n |->
        FMul(Col(ret.args.df, "pd")[i], FMul(Col(ret.args.df, "lgd")[i], ret.args.exposure[i]))]

EclLifetimeOfCall ==
    [i \in 1..ret.args.df.n |->
        calculate_lifetime_ecl(Col(ret.args.df, "pd")[i], Col(ret.args.df, "lgd")[i],
                               ret.args.exposure[i], DefaultMaturity)]

VasicekFactorTable ==
    <<3, 20>> :> (10 :> 72 @@ 1000 :> 1263 @@ 5000 :> 2994 @@ 25000 :> 4924 @@
                  50000 :> 4182 @@ 99990 :> 1) @@
    <<6, 25>> :> (10 :> 134 @@ 1000 :> 2087 @@ 5000 :> 4434 @@ 25000 :> 6172 @@
                  50000 :> 4763 @@ 99990 :> 1)

VasicekFactor(pd, correlation) ==
    Q(VasicekFactorTable[<<correlation.n, correlation.d>>][PdKey(pd)], 10000)

\* C20: calculate_rwa_simple returns EAD * K * (1/(1-1.5b)) * 12.5 where
\* K = LGD * Phi(sqrt(1/(1-R))*InvPhi(PD) + sqrt(R/(1-R))*InvPhi(0.999)) - PD * LGD
\* on the clipped PD (compared at a precision of 1e-4 of the capital factor).
C20_VasicekArgument ==
    ret.op = "calculate_rwa_simple" =>
        ret.value = FMul(FMul(ret.args.ead,
                              FMul(ret.args.lgd,
                                   VasicekFactor(ClipPd(ret.args.pd), ret.args.correlation))),
                         Q(25, 2))

\* C21: risk-weighted assets never decrease when the PD rises: for the EAD, LGD
\* and correlation of a call and every higher PD p2 in (0, 0.999], the RWA
\* of the call is at most calculate_rwa_simple(ead, p2, lgd, correlation).
C21_RwaMonotoneInPd ==
    ret.op = "calculate_rwa_simple" =>
        \A p2 \in RwaPds :
            (/\ FLt(Zero, ret.args.pd)
             /\ FLt(ret.args.pd, p2)
             /\ FLe(p2, Q(999, 1000))
             /\ FLe(Zero, ret.args.ead)
             /\ FLe(Zero, ret.args.lgd))
            => FLe(ret.value,
                   calculate_rwa_simple(ret.args.ead, p2, ret.args.lgd,
                                        ret.args.correlation))

\* every cell of the column equals the first
CaiConstant(s) == \A i \in DOMAIN s : s[i] = s[1]

\* C22: CreditAvailabilityIndex.calculate returns, for every time point of a
\* series that has the four columns, a number in [0, 100] and never NaN: a
\* constant column or a single row contributes a z-score of 0, so the index is
\* 50 when every column is constant.
C22_IndexDefinedInRange ==
    (ret.op = "CreditAvailabilityIndex.calculate"
     /\ \A c \in Range(CaiColumns) : HasCol(ret.args.df, c))
    => /\ ret.raised = None
       /\ \A i \in 1..ret.args.df.n :
             /\ ~IsNaN(ret.value[i])
             /\ FLe(Zero, ret.value[i])
             /\ FLe(ret.value[i], Q(100, 1))
       /\ (\A c \in Range(CaiColumns) : CaiConstant(Col(ret.args.df, c)))
          => \A i \in 1..ret.args.df.n : ret.value[i] = Q(50, 1)

\* the cells of the value lie in [lo, hi]
CellsWithin(value, lo, hi) ==
    \A i \in DOMAIN value.v : FLe(lo, value.v[i]) /\ FLe(value.v[i], hi)

\* C23: the LGD functions are total: calculate_secured, calculate_downturn and
\* calculate_simple raise no exception for numeric inputs, scalar or table,
\* and the value lies in the clip range: [0, 1] for secured and downturn,
\* [0.05, 0.60] for housing.
C23_LgdTotalAndClipped ==
    /\ ret.op \in {"LGDModel.calculate_secured", "LGDModel.calculate_downturn"}
       => ret.raised = None /\ CellsWithin(ret.value, Zero, One)
    /\ (ret.op = "LGDModel.calculate_simple"
        /\ HasCol(ret.args.df, "housing_price_growth"))
       => /\ ret.raised = None
          /\ ret.args.collateral_type = "housing"
             => CellsWithin(ret.value, Q(5, 100), Q(60, 100))

\* C26: every scenario's apply returns a series with the same number of rows and
\* exactly the same set of columns as its input: no scenario adds or drops a
\* column.
C26_SameRowsAndColumns ==
    (ret.op = "apply" /\ ret.raised = None)
        => /\ ret.value.n = df_macro.n
           /\ Range(ret.value.columns) = Range(df_macro.columns)

\* C27: the PD multiplier apply_scenario_to_portfolio passes to stress_portfolio
\* is never negative, so ecl_stressed >= 0 for every segment with non-negative
\* avg_pd, avg_lgd and total_ead, for every scenario, a custom scenario that
\* lowers unemployment included.
C27_PdMultiplierNonNegative ==
    (ret.op = "apply_scenario_to_portfolio" /\ ret.raised = None)
        => /\ FLe(Zero, ret.shocks.pd_shock)
           /\ \A i \in 1..StressedTable.n :
                 (/\ FLe(Zero, Col(StressedTable, "avg_pd")[i])
                  /\ FLe(Zero, Col(StressedTable, "avg_lgd")[i])
                  /\ FLe(Zero, Col(StressedTable, "total_ead")[i]))
                 => FLe(Zero, Col(StressedTable, "ecl_stressed")[i])

\* C28: for every segment with avg_pd in [0, 1] and every pd_shock >= 0,
\* stress_portfolio yields avg_pd_stressed in [0, 1], as it yields
\* avg_lgd_stressed in [0, 1] for avg_lgd in [0, 1], and the PD that enters
\* rwa_stressed (the PD after calculate_rwa_simple's clip) is the PD that enters
\* ecl_stressed.
C28_StressedProbabilitiesBounded ==
    (ret.op = "stress_portfolio" /\ ret.raised = None /\ FLe(Zero, ret.args.pd_shock))
        => \A i \in 1..ret.value.n :
              /\ InUnitInterval(Col(ret.value, "avg_pd")[i])
                    => /\ InUnitInterval(Col(ret.value, "avg_pd_stressed")[i])
                       /\ ClipPd(Col(ret.value, "avg_pd_stressed")[i])
                             = Col(ret.value, "avg_pd_stressed")[i]
              /\ (InUnitInterval(Col(ret.value, "avg_lgd")[i]) /\ FLe(Zero, ret.args.lgd_shock))
                    => InUnitInterval(Col(ret.value, "avg_lgd_stressed")[i])

\* C29: the severe recession never moves a variable against its direction: at
\* every period the stressed unemployment_rate is at least the baseline's, and
\* the stressed cash_rate and fed_funds_rate are at most the baseline's.
C29_RecessionDirection ==
    ( /\ ret.op \in ScenarioCalls
      /\ ret.args.class = "SevereRecessionScenario"
      /\ ret.raised = None )
        => \A i \in 1..df_macro.n :
              /\ HasCol(df_macro, "unemployment_rate")
                    => FLe(Col(df_macro, "unemployment_rate")[i],
                           Col(StressedSeries, "unemployment_rate")[i])
              /\ HasCol(df_macro, "cash_rate")
                    => FLe(Col(StressedSeries, "cash_rate")[i], Col(df_macro, "cash_rate")[i])
              /\ HasCol(df_macro, "fed_funds_rate")
                    => FLe(Col(StressedSeries, "fed_funds_rate")[i],
                           Col(df_macro, "fed_funds_rate")[i])

(***************************************************************************)
(* Custom scenarios one after another: the series a custom scenario        *)
(* returned is given to a second custom scenario.                          *)
(***************************************************************************)
\* B.apply(A.apply(S)): ret keeps the first scenario and the series it was given
ApplyCustomAgain ==
    /\ ret.op = "apply"
    /\ ret.args.class = "CustomScenario"
    /\ ret.raised = None
    /\ "first" \notin DOMAIN ret
    /\ \E sc \in CustomScenarios :
          \E a \in {CustomScenario_apply(sc, ret.value)} :
              /\ df_macro' = a.df_base
              /\ ret' = [op |-> "apply", args |-> sc, raised |-> a.raised, value |-> a.value,
                         first |-> [scenario |-> ret.args, df_base |-> df_macro]]
    /\ UNCHANGED <<exposures, ead_model>>

InitCompose ==
    /\ \E cols \in ColumnSets, n \in 1..MaxRows, level \in MacroLevels :
          df_macro = MacroTable(cols, n, level)
    /\ exposures = EmptyFrame
    /\ ead_model = None
    /\ ret = NoCall

NextCompose ==
    \/ ApplyCustom
    \/ ApplyCustomAgain

SpecCompose == InitCompose /\ [][NextCompose]_vars

\* field c is named in a custom mapping
Named(shocks, c) == \E i \in DOMAIN shocks : shocks[i][1] = c

\* the items of b whose field a does not name
RECURSIVE OnlyIn(_, _)
OnlyIn(b, a) ==
    IF b = <<>> THEN <<>>
    ELSE IF Named(a, Head(b)[1]) THEN OnlyIn(Tail(b), a)
         ELSE <<Head(b)>> \o OnlyIn(Tail(b), a)

\* the custom scenario whose shock for each field is the sum of a's and b's
SumScenario(a, b) ==
    [class |-> "CustomScenario",
     custom_shocks |->
        [i \in 1..Len(a.custom_shocks) |->
            <<a.custom_shocks[i][1],
              FAdd(a.custom_shocks[i][2], ShockFor(b.custom_shocks, a.custom_shocks[i][1]))>>]
        \o OnlyIn(b.custom_shocks, a.custom_shocks)]

====
